---- MODULE Spec2Model ----
(***************************************************************************)
(* Model of the Snowflake CDC destination of PeerDB: one mirror whose      *)
(* records are pushed to the raw table by SyncRecords and merged into the  *)
(* destination tables by NormalizeRecords, with the mirror's three cursors *)
(* (last_offset, last_sync_batch_id, last_normalize_batch_id).             *)
(***************************************************************************)
EXTENDS Integers, Sequences, FiniteSets, Bags, TLC

\* ---------------------------------------------------------------- bounds
\* batch ids run over 1..MaxBatch
MaxBatch == 2
\* records of one batch in the merge specification
MaxRecs == 2
\* _PEERDB_TIMESTAMP values run over 1..MaxTs in the merge specification
MaxTs == 2

\* ------------------------------------------------------------- universe
Tables == {"t1", "t2"}
Keys == {"k1", "k2"}
\* non-key columns of every destination table; "c" is a TOAST-able column
Cols == {"a", "c"}
Vals == {"v1", "v2"}
\* the value of every column of a row merged before the batch under study
OldVal == "v0"
NULL == "null"
\* _PEERDB_RECORD_TYPE of a delete row (0 = insert, 1 = update)
DeleteRecordType == 2

VARIABLES
    last_offset,              \* metadata row of the mirror: last synced offset
    last_sync_batch_id,       \* metadata row: sync_batch_id
    last_normalize_batch_id,  \* metadata row: normalize_batch_id
    raw,                      \* _PEERDB_RAW_<mirror>: a bag of rows
    dest,                     \* destination tables: table -> bag of rows
    softDelete,               \* mirror config: SoftDeleteColName # ""
    sy,                       \* the SyncRecords call in progress
    nz,                       \* the NormalizeRecords call in progress
    batchRecords,             \* history: the records last delivered for a batch
    columns,                  \* destination tables: table -> its columns
    batchDeltas,              \* history: the schema deltas last delivered for a batch
    env,                      \* the table mappings and merge parallelisms in use
    hist,                     \* history: the destination when the normalize cursor last
                              \* moved, the batches whose normalize was cancelled
    store,                    \* the change buffer (cdcStore) of the sync step
    cls,                      \* the error handed to the classifier and its class
    flow,                     \* the job controller of the mirror: status, loop, signals
    rn,                       \* the destination's tables by name and the RenameTables calls
    eq,                       \* two values and what Equals has returned for them
    repl,                     \* the replication connection: the puller and the keepalive ping
    rp,                       \* a destination's columns and the calls of ReplayTableSchemaDeltas
    ga,                       \* the connectors GetAs has created, and its call in progress
    rm                        \* the last request to remove tables from the raw table

vars == <<last_offset, last_sync_batch_id, last_normalize_batch_id, raw, dest,
          softDelete, sy, nz, batchRecords, columns, batchDeltas, env, hist, store, cls,
          flow, rn, eq, repl, rp, ga, rm>>

\* the components beside the connector, the change buffer and the classifier
sideVars == <<flow, rn, eq, repl, rp, ga, rm>>

schemaVars == <<columns, batchDeltas>>

cursors == <<last_offset, last_sync_batch_id, last_normalize_batch_id>>

\* ------------------------------------------------------------- helpers
Max(a, b) == IF a >= b THEN a ELSE b

RECURSIVE SumCounts(_, _)
SumCounts(B, S) ==
    IF S = {} THEN 0
    ELSE LET x == CHOOSE y \in S : TRUE
         IN B[x] + SumCounts(B, S \ {x})

\* a change record as it reaches the raw-table writer
Rec(cp, ts, tbl, pk, rtype, data, utc) ==
    [cp |-> cp, ts |-> ts, tbl |-> tbl, pk |-> pk, rtype |-> rtype,
     data |-> data, utc |-> utc]

\* the raw rows of a batch: one row per record, _PEERDB_UID in arrival order
RecordsToRawTableStream(b, recs) ==
    {[uid |-> i, ts |-> recs[i].ts, tbl |-> recs[i].tbl, pk |-> recs[i].pk,
      rtype |-> recs[i].rtype, data |-> recs[i].data, utc |-> recs[i].utc,
      batch |-> b] : i \in 1..Len(recs)}

\* req.Records.GetLastCheckpoint()
GetLastCheckpoint(recs) == IF recs = <<>> THEN 0 ELSE recs[Len(recs)].cp

\* ------------------------------------------------- the metadata store
\* FinishBatch: advances sync_batch_id and last_offset together; replaying
\* an id <= the current one changes nothing
FinishBatchSync(cur, b) == IF b <= cur THEN cur ELSE b
FinishBatchOffset(cur, off, curSync, b) ==
    IF b <= curSync THEN cur ELSE Max(cur, off)
\* UpdateNormalizeBatchID is refused for a batch that was never synced
UpdateNormalizeAllowed(b, curSync) == b <= curSync

\* --------------------------------------------------------- MERGE
\* VARIANT_CONVERTED: the raw rows of batch b for table t (every row of the
\* model carries a JSON object, so _PEERDB_DATA != '' holds of each)
VariantConverted(rows, b, t) ==
    {r \in BagToSet(rows) : r.batch = b /\ r.tbl = t}

\* FLATTENED: one typed column per schema column; a key missing from the
\* JSON object yields NULL
Flattened(r) ==
    [c \in Cols |-> IF c \in DOMAIN r.data THEN r.data[c] ELSE NULL]

\* RANK() OVER (PARTITION BY pk ORDER BY _PEERDB_TIMESTAMP DESC)
PeerdbRank(F, r) ==
    1 + Cardinality({q \in F : q.pk = r.pk /\ q.ts > r.ts})

\* DEDUPLICATED_FLATTENED: the rows of rank 1
DeduplicatedFlattened(F) == {r \in F : PeerdbRank(F, r) = 1}

\* the SOURCE of the MERGE for table t and batch b
MergeSource(rows, b, t) == DeduplicatedFlattened(VariantConverted(rows, b, t))

\* (faulty variant) the column sets are read from the batch before
GetTableNameToUnchangedColsOfPrevious(rows, b) ==
    [t \in Tables |->
        {r.utc : r \in {q \in BagToSet(rows) : q.batch = b - 1 /\ q.tbl = t
                                     /\ q.rtype # DeleteRecordType}}]

\* getTableNameToUnchangedColsSQL: per table the DISTINCT
\* _PEERDB_UNCHANGED_TOAST_COLUMNS of the batch's non-delete rows
GetTableNameToUnchangedCols(rows, b) ==
    [t \in Tables |->
        {r.utc : r \in {q \in BagToSet(rows) : q.batch = b /\ q.tbl = t
                                     /\ q.rtype # DeleteRecordType}}]

\* (faulty variant) every table of the batch is kept, known to the mapping
\* or not
GetDistinctTableNamesInBatchAll(rows, b, tableToSchema) ==
    {r.tbl : r \in {q \in BagToSet(rows) : q.batch = b}}

\* getDistinctDestinationTableNames, kept when the mapping knows the table
GetDistinctTableNamesInBatch(rows, b, tableToSchema) ==
    {r.tbl : r \in {q \in BagToSet(rows) : q.batch = b}} \cap tableToSchema

\* the source rows joined to a target row (ON TARGET.pk = SOURCE.pk)
Matching(S, pk) == {s \in S : s.pk = pk}

\* the row a NOT MATCHED source row inserts
InsertedRow(s) == [pk |-> s.pk, vals |-> Flattened(s), del |-> FALSE]

\* what one joined source row does to a target row; the result is a set:
\* empty when the row is deleted
ApplyMatched(tr, s, utcs, soft) ==
    IF s.rtype = DeleteRecordType
    THEN IF soft THEN {[tr EXCEPT !.del = TRUE]} ELSE {}
    ELSE IF s.utc \in utcs
         THEN {[tr EXCEPT !.vals = [c \in Cols |->
                   IF c \in s.utc THEN tr.vals[c] ELSE Flattened(s)[c]]]}
         ELSE {tr}

\* the ways of picking one source row for each joined target key: a target
\* row joined to several source rows is updated or deleted by one of them,
\* which one is not defined
Picks(T, S) ==
    LET pks == {pk \in {tr.pk : tr \in BagToSet(T)} : Matching(S, pk) # {}}
    IN {f \in [pks -> S] : \A pk \in pks : f[pk] \in Matching(S, pk)}

\* the target table after the MERGE, given the pick
MergedTable(T, S, utcs, soft, pick) ==
    LET old == BagToSet(T)
        image(tr) == IF tr.pk \in DOMAIN pick
                     THEN ApplyMatched(tr, pick[tr.pk], utcs, soft)
                     ELSE {tr}
        ins == {s \in S : /\ \A tr \in old : tr.pk # s.pk
                          /\ s.rtype # DeleteRecordType}
        rows == UNION {image(tr) : tr \in old} \cup {InsertedRow(s) : s \in ins}
    IN [r \in rows |->
          SumCounts(T, {tr \in old : r \in image(tr)})
          + Cardinality({s \in ins : InsertedRow(s) = r})]

\* every table the MERGE statement can leave behind when it succeeds
MergeResults(T, S, utcs, soft) ==
    {MergedTable(T, S, utcs, soft, pick) : pick \in Picks(T, S)}

\* ------------------------------------------------ requests of the mirror
Ins(cp, ts, t, k, v) == Rec(cp, ts, t, k, 0, [c \in Cols |-> v], {})
Upd(cp, ts, t, k, v) == Rec(cp, ts, t, k, 1, [c \in Cols |-> v], {})
UpdToast(cp, ts, t, k, v) == Rec(cp, ts, t, k, 1, [c \in {"a"} |-> v], {"c"})
Del(cp, ts, t, k) == Rec(cp, ts, t, k, DeleteRecordType, [c \in {} |-> NULL], {})

\* the record streams a sync step may be handed for batch b; checkpoints
\* grow with the batch and along the stream
SyncRequests(b) ==
    LET o == 2 * (b - 1)
    IN {<<Ins(o + 1, 1, "t1", "k1", "v1"), Ins(o + 2, 2, "t2", "k1", "v1")>>,
        <<UpdToast(o + 1, 1, "t1", "k1", "v2"), Del(o + 2, 2, "t2", "k1")>>}

TableMappings == {Tables, {"t1"}}
Parallelisms == {1, 2}
\* a mirror whose callers pass any of the mappings and parallelisms, and one
\* that maps t1 alone and merges one table at a time
AnyRequest == [mappings |-> TableMappings, pars |-> Parallelisms]
OneTableMapped == [mappings |-> {{"t1"}}, pars |-> {1}]

Orderings(S) ==
    {q \in UNION {[1..n -> S] : n \in {Cardinality(S)}} :
        \A i, j \in DOMAIN q : i # j => q[i] # q[j]}

\* ------------------------------------------------------- schema deltas
\* the column a source table may gain while the mirror runs
NewCol == "c"

\* a TableSchemaDelta: AddedColumns for DstTableName
Delta(t) == [DstTableName |-> t, AddedColumns |-> {NewCol}]

\* the deltas a sync step for batch b may be handed: those delivered with
\* the batch before, or a delta for a table that has not got the column yet
SchemaDeltaChoices(b) ==
    IF b <= last_sync_batch_id
    THEN {batchDeltas[b]}
    ELSE {batchDeltas[b]}
         \cup SUBSET {Delta(t) : t \in {x \in {"t1"} : NewCol \notin columns[x]}}

\* the columns of table t at the source when the deltas are published
SourceColumns(t, deltas) ==
    columns[t] \cup UNION {d.AddedColumns : d \in {x \in deltas : x.DstTableName = t}}

\* a record carries the columns its source table has
AsPublished(r, deltas) ==
    [r EXCEPT !.data = [c \in (DOMAIN r.data) \cap SourceColumns(r.tbl, deltas)
                           |-> r.data[c]],
              !.utc = r.utc \cap SourceColumns(r.tbl, deltas)]

RecordsAsPublished(recs, deltas) ==
    [i \in DOMAIN recs |-> AsPublished(recs[i], deltas)]

\* ALTER TABLE ... ADD COLUMN IF NOT EXISTS for every added column of every
\* delta
ReplayedColumns(cols, deltas) ==
    [t \in Tables |->
        cols[t] \cup UNION {d.AddedColumns : d \in {x \in deltas : x.DstTableName = t}}]

\* ------------------------------------------------------------ SyncRecords
SyIdle == sy.pc \in {"idle", "ret"}

\* the call returns; its request's batch id stays on record
SyReturn(err) ==
    [pc |-> "ret", req |-> [batch |-> sy.req.batch, records |-> <<>>, deltas |-> {}],
     err |-> err, leftover |-> sy.leftover]

\* rows of batch b are in the raw table although b was never committed: an
\* earlier attempt of the batch failed after its load
Leftover(b) ==
    b > last_sync_batch_id /\ \E r \in BagToSet(raw) : r.batch = b

\* the batch id and offset SyncRecords hands to FinishBatch
FinishBatchIDNext(req) == req.batch + 1
FinishBatchID(req) == req.batch
FinishBatchCheckpoint(req) == GetLastCheckpoint(req.records)

\* SyncRecords is entered; syncRecordsViaAvro builds the stream and reads the
\* raw table's schema
SyncRecords_Begin ==
    /\ SyIdle
    /\ \E b \in 1..MaxBatch, ok \in BOOLEAN :
        /\ b <= last_sync_batch_id + 1
        /\ \E deltas \in SchemaDeltaChoices(b) :
           \E recs \in (IF b <= last_sync_batch_id
                        THEN {batchRecords[b]}
                        ELSE {RecordsAsPublished(q, deltas) : q \in SyncRequests(b)}) :
            sy' = IF ok
                  THEN [pc |-> "load",
                        req |-> [batch |-> b, records |-> recs, deltas |-> deltas],
                        err |-> FALSE, leftover |-> Leftover(b)]
                  ELSE [pc |-> "ret",
                        req |-> [batch |-> b, records |-> <<>>, deltas |-> {}],
                        err |-> TRUE, leftover |-> Leftover(b)]
    /\ UNCHANGED <<cursors, raw, dest, softDelete, nz, batchRecords,
                   schemaVars, env, hist, store, cls, sideVars>>

\* the writer's store of a batch: the rows keyed by the batch id replace
\* whatever an earlier attempt of the same batch left
WriteBatch(rows, b, recs) ==
    [r \in {q \in BagToSet(rows) : q.batch # b} |-> rows[r]]
        (+) SetToBag(RecordsToRawTableStream(b, recs))

\* (faulty variant) the error of the load is dropped and the call goes on
SyncRecords_LoadErrorDropped ==
    /\ sy.pc = "load"
    /\ \E ok \in BOOLEAN :
        IF ok
        THEN /\ raw' = WriteBatch(raw, sy.req.batch, sy.req.records)
             /\ batchRecords' = [batchRecords EXCEPT ![sy.req.batch] = sy.req.records]
             /\ batchDeltas' = [batchDeltas EXCEPT ![sy.req.batch] = sy.req.deltas]
        ELSE UNCHANGED <<raw, batchRecords, batchDeltas>>
    /\ sy' = [sy EXCEPT !.pc = "replay"]
    /\ UNCHANGED <<cursors, dest, softDelete, nz, columns, env, hist, store, cls, sideVars>>

\* avroSyncer.SyncRecords: the batch is loaded into the raw table as a whole
SyncRecords_Load ==
    /\ sy.pc = "load"
    /\ \E ok \in BOOLEAN :
        IF ok
        THEN /\ raw' = WriteBatch(raw, sy.req.batch, sy.req.records)
             /\ batchRecords' = [batchRecords EXCEPT ![sy.req.batch] = sy.req.records]
             /\ batchDeltas' = [batchDeltas EXCEPT ![sy.req.batch] = sy.req.deltas]
             /\ sy' = [sy EXCEPT !.pc = "replay"]
        ELSE /\ sy' = SyReturn(TRUE)
             /\ UNCHANGED <<raw, batchRecords, batchDeltas>>
    /\ UNCHANGED <<cursors, dest, softDelete, nz, columns, env, hist, store, cls, sideVars>>

\* (faulty variant) the error of the replay is dropped and the call goes on
SyncRecords_ReplayErrorDropped ==
    /\ sy.pc = "replay"
    /\ \E ok \in BOOLEAN :
        /\ columns' = IF ok THEN ReplayedColumns(columns, sy.req.deltas) ELSE columns
        /\ sy' = [sy EXCEPT !.pc = "finish"]
    /\ UNCHANGED <<cursors, raw, dest, softDelete, nz, batchRecords, batchDeltas,
                   env, hist, store, cls, sideVars>>

\* ReplayTableSchemaDeltas of the batch's deltas: the columns are added and
\* the call goes on, or the call returns the error of Begin, of an ALTER
\* TABLE or of Commit, the columns added or not
SyncRecords_Replay ==
    /\ sy.pc = "replay"
    /\ \E ok \in BOOLEAN :
        IF ok
        THEN /\ columns' = ReplayedColumns(columns, sy.req.deltas)
             /\ sy' = [sy EXCEPT !.pc = "finish"]
        ELSE /\ columns' \in {columns, ReplayedColumns(columns, sy.req.deltas)}
             /\ sy' = SyReturn(TRUE)
    /\ UNCHANGED <<cursors, raw, dest, softDelete, nz, batchRecords, batchDeltas,
                   env, hist, store, cls, sideVars>>

\* FinishBatch, then the response is returned
SyncRecords_Finish ==
    /\ sy.pc = "finish"
    /\ \E ok \in BOOLEAN :
        IF ok
        THEN /\ last_sync_batch_id' =
                    FinishBatchSync(last_sync_batch_id, FinishBatchID(sy.req))
             /\ last_offset' =
                    FinishBatchOffset(last_offset, FinishBatchCheckpoint(sy.req),
                                      last_sync_batch_id, FinishBatchID(sy.req))
             /\ sy' = SyReturn(FALSE)
        ELSE /\ sy' = SyReturn(TRUE)
             /\ UNCHANGED <<last_sync_batch_id, last_offset>>
    /\ UNCHANGED <<last_normalize_batch_id, raw, dest, softDelete, nz, batchRecords,
                   schemaVars, env, hist, store, cls, sideVars>>
\* -------------------------------------------------------- NormalizeRecords
NzIdle == nz.pc \in {"idle", "ret"}

\* the call returns; the request's SyncBatchID, the cursor it read and the
\* batch it reached stay on record
NzReturn(err) ==
    [pc |-> "ret", s |-> nz.s, mapping |-> Tables, par |-> 1,
     normBatchID |-> nz.normBatchID, batchId |-> nz.batchId, pending |-> <<>>,
     going |-> FALSE, running |-> {}, done |-> {}, utcs |-> [t \in Tables |-> {}],
     gerr |-> FALSE, ctxErr |-> FALSE, late |-> {}, err |-> err]

\* "normalize has caught up with sync"
CaughtUp(normBatchID, syncBatchID) == normBatchID >= syncBatchID

\* the cursor NormalizeRecords reads when it is entered
GetLastNormalizeBatchIDStale == nz.normBatchID
GetLastNormalizeBatchID == last_normalize_batch_id

\* the for statement over the batches of the request
FirstBatchBehind(normBatchID) == normBatchID - 1
FirstBatch(normBatchID) == normBatchID + 1
LoopContinuesOneMore(batchId, syncBatchID) == batchId <= syncBatchID + 1
LoopContinues(batchId, syncBatchID) == batchId <= syncBatchID

\* gCtx.Err() != nil: the caller's context is cancelled or a merge of the
\* group has failed
GroupCtxErr == nz.ctxErr \/ nz.gerr

\* NormalizeRecords is entered: the cursor is read and the request compared
\* with it
NormalizeRecords_Begin ==
    /\ NzIdle
    /\ \E s \in 0..last_sync_batch_id, m \in env.mappings, par \in env.pars,
          ok \in BOOLEAN :
        LET call == [pc |-> "ret", s |-> s, mapping |-> Tables, par |-> 1,
                     normBatchID |-> GetLastNormalizeBatchID,
                     batchId |-> 0, pending |-> <<>>, going |-> FALSE,
                     running |-> {}, done |-> {}, utcs |-> [t \in Tables |-> {}],
                     gerr |-> FALSE, ctxErr |-> FALSE, late |-> {},
                     err |-> ~ok]
            first == FirstBatch(GetLastNormalizeBatchID)
        IN nz' = IF ok /\ ~CaughtUp(GetLastNormalizeBatchID, s)
                       /\ LoopContinues(first, s)
                 THEN [call EXCEPT !.pc = "tables", !.batchId = first,
                                   !.mapping = m, !.par = par]
                 ELSE call
    /\ UNCHANGED <<cursors, raw, dest, softDelete, sy, batchRecords,
                   schemaVars, env, hist, store, cls, sideVars>>

\* mergeTablesForBatch up to the errgroup: the batch's tables and their
\* unchanged-TOAST column sets are read from the raw table
MergeTablesForBatch_Begin ==
    /\ nz.pc = "tables"
    /\ \E ok \in BOOLEAN :
        IF ok /\ ~nz.ctxErr
        THEN \E q \in Orderings(GetDistinctTableNamesInBatch(raw, nz.batchId, nz.mapping)) :
                nz' = [nz EXCEPT !.pc = "merge", !.pending = q, !.going = FALSE,
                                 !.running = {}, !.done = {}, !.gerr = FALSE,
                                 !.late = {},
                                 !.utcs = GetTableNameToUnchangedCols(raw, nz.batchId)]
        ELSE nz' = NzReturn(TRUE)
    /\ UNCHANGED <<cursors, raw, dest, softDelete, sy, batchRecords,
                   schemaVars, env, hist, store, cls, sideVars>>

\* the head of the loop over the tables: break once gCtx is done
MergeTablesForBatch_Next ==
    /\ nz.pc = "merge" /\ ~nz.going /\ nz.pending # <<>>
    /\ nz' = IF GroupCtxErr THEN [nz EXCEPT !.pending = <<>>]
             ELSE [nz EXCEPT !.going = TRUE]
    /\ UNCHANGED <<cursors, raw, dest, softDelete, sy, batchRecords,
                   schemaVars, env, hist, store, cls, sideVars>>

\* the slots of the group: g.SetLimit(mergeParallelism)
SetLimitNone(par) == Cardinality(Tables)
SetLimit(par) == par

\* g.Go: waits for one of the SetLimit slots, then starts the table's function;
\* late holds the tables whose function starts when gCtx is already done
MergeTablesForBatch_Go ==
    /\ nz.pc = "merge" /\ nz.going
    /\ Cardinality(nz.running) < SetLimit(nz.par)
    /\ nz' = [nz EXCEPT !.going = FALSE, !.pending = Tail(nz.pending),
                        !.running = nz.running \cup {Head(nz.pending)},
                        !.late = IF GroupCtxErr THEN nz.late \cup {Head(nz.pending)}
                                 ELSE nz.late]
    /\ UNCHANGED <<cursors, raw, dest, softDelete, sy, batchRecords,
                   schemaVars, env, hist, store, cls, sideVars>>

\* one table's function of the group: the MERGE statement is generated and
\* executed; applied says whether the statement took effect, ok whether the
\* function returned nil. ExecContext sends nothing when gCtx is done before it
\* is called
MergeTable ==
    /\ nz.pc = "merge"
    /\ \E t \in nz.running, applied \in BOOLEAN, ok \in BOOLEAN :
        /\ ok => applied /\ ~GroupCtxErr
        /\ applied => t \notin nz.late
        /\ IF applied
           THEN \E T \in MergeResults(dest[t], MergeSource(raw, nz.batchId, t),
                                      nz.utcs[t], softDelete) :
                    dest' = [dest EXCEPT ![t] = T]
           ELSE dest' = dest
        /\ nz' = [nz EXCEPT !.running = nz.running \ {t},
                            !.done = IF ok THEN nz.done \cup {t} ELSE nz.done,
                            !.gerr = nz.gerr \/ ~ok]
    /\ UNCHANGED <<cursors, raw, softDelete, sy, batchRecords,
                   schemaVars, env, hist, store, cls, sideVars>>

\* the error mergeTablesForBatch returns after the loop: that of g.Wait, or
\* "normalize canceled" when ctx is done
WaitErrorCtxOnly == nz.ctxErr
WaitError == nz.gerr \/ nz.ctxErr

\* (faulty variant) the cursor is moved to the batch before the group's error is
\* looked at
MergeTablesForBatch_WaitCursorFirst ==
    /\ nz.pc = "merge" /\ ~nz.going /\ nz.pending = <<>> /\ nz.running = {}
    /\ last_normalize_batch_id' = nz.batchId
    /\ nz' = IF WaitError THEN NzReturn(TRUE)
             ELSE [nz EXCEPT !.pc = "update"]
    /\ UNCHANGED <<last_offset, last_sync_batch_id, raw, dest, softDelete, sy,
                   batchRecords,
                   schemaVars, env, hist, store, cls, sideVars>>

\* g.Wait and the check of ctx.Err that ends mergeTablesForBatch
MergeTablesForBatch_Wait ==
    /\ nz.pc = "merge" /\ ~nz.going /\ nz.pending = <<>> /\ nz.running = {}
    /\ nz' = IF WaitError THEN NzReturn(TRUE)
             ELSE [nz EXCEPT !.pc = "update"]
    /\ UNCHANGED <<cursors, raw, dest, softDelete, sy, batchRecords,
                   schemaVars, env, hist, store, cls, sideVars>>

\* UpdateNormalizeBatchID, then the next batch of the loop
NormalizeRecords_Update ==
    /\ nz.pc = "update"
    /\ \E ok \in BOOLEAN :
        IF ok /\ ~nz.ctxErr /\ UpdateNormalizeAllowed(nz.batchId, last_sync_batch_id)
        THEN /\ last_normalize_batch_id' = nz.batchId
             /\ hist' = IF hist.on THEN [hist EXCEPT !.normalized = dest] ELSE hist
             /\ nz' = IF LoopContinues(nz.batchId + 1, nz.s)
                      THEN [nz EXCEPT !.pc = "tables", !.batchId = nz.batchId + 1]
                      ELSE NzReturn(FALSE)
        ELSE /\ nz' = NzReturn(TRUE)
             /\ UNCHANGED <<last_normalize_batch_id, hist>>
    /\ UNCHANGED <<last_offset, last_sync_batch_id, raw, dest, softDelete, sy,
                   batchRecords,
                   schemaVars, env, store, cls, sideVars>>

\* the caller's context is cancelled while the call runs
CtxCancel ==
    /\ ~NzIdle /\ ~nz.ctxErr
    /\ nz' = [nz EXCEPT !.ctxErr = TRUE]
    /\ hist' = IF hist.on THEN [hist EXCEPT !.cancelled = @ \cup {nz.batchId}]
                        ELSE hist
    /\ UNCHANGED <<cursors, raw, dest, softDelete, sy, batchRecords,
                   schemaVars, env, store, cls, sideVars>>

\* ------------------------------------------- values of a change record
\* a time.Time: the seconds and nanoseconds of its instant, its location
\* (name, offset from UTC in seconds), whether it has a monotonic reading
GoTime(sec, nsec, loc, mono) ==
    [sec |-> sec, nsec |-> nsec, loc |-> loc, mono |-> mono]
UTC == [name |-> "UTC", offset |-> 0]
FixedZone(name, offset) == [name |-> name, offset |-> offset]

\* a decimal.Decimal: value * 10^exp
Decimal(value, exp) == [value |-> value, exp |-> exp]

QValueBoolean(v) == [kind |-> "bool", val |-> v]
QValueInt32(v) == [kind |-> "int32", val |-> v]
QValueInt64(v) == [kind |-> "int64", val |-> v]
QValueString(v) == [kind |-> "string", val |-> v]
QValueBytes(v) == [kind |-> "bytes", val |-> v]
QValueUUID(v) == [kind |-> "uuid", val |-> v]
QValueNumeric(v) == [kind |-> "numeric", val |-> v]
QValueTimestamp(v) == [kind |-> "timestamp", val |-> v]
QValueDate(v) == [kind |-> "date", val |-> v]
\* a QValueTime holds a time.Duration, in nanoseconds
QValueTime(v) == [kind |-> "time", val |-> v]
QValueInt16(v) == [kind |-> "int16", val |-> v]
QValueArrayInt16(v) == [kind |-> "arrayint16", val |-> v]
QValueArrayInt32(v) == [kind |-> "arrayint32", val |-> v]
QValueArrayInt64(v) == [kind |-> "arrayint64", val |-> v]

IntKinds == {"int16", "int32", "int64"}
NativeNumericArrayKinds == {"arrayint16", "arrayint32", "arrayint64"}
TimeKinds == {"timestamp", "date"}

\* ----------------------------------------------------- qvalue.Equals
valueEmpty(q) ==
    \/ q.kind = "string" /\ q.val \in {"", "null"}
    \/ q.kind = "bytes" /\ q.val = <<>>
    \/ q.kind \in NativeNumericArrayKinds /\ q.val = <<>>

Pow10(n) == IF n = 0 THEN 1 ELSE IF n = 1 THEN 10 ELSE 100

\* decimal.Equal: the numbers are compared, not their representations
DecimalEqual(d1, d2) ==
    LET m == IF d1.exp <= d2.exp THEN d1.exp ELSE d2.exp
    IN d1.value * Pow10(d1.exp - m) = d2.value * Pow10(d2.exp - m)

\* Time.UnixMicro, as the pair of the seconds and the microseconds of the
\* second
UnixMicro(t) == <<t.sec, t.nsec \div 1000>>

SecondsPerDay == 86400
\* Time.Date: the day of the instant in the time's location
Date(t) == (t.sec + t.loc.offset) \div SecondsPerDay

\* a float64 that holds an integer; every integer of the model is below
\* 2^53 and is converted without rounding
Float64(v) == [float64 |-> v]
Abs(x) == IF x < 0 THEN -x ELSE x

\* the array of float64, nil for a value that is no array of numbers
NilArray == [nil |-> TRUE, elems |-> <<>>]
convertNativeNumericArrayToFloat64Array(q) ==
    IF q.kind \in NativeNumericArrayKinds
    THEN [nil |-> FALSE, elems |-> [i \in DOMAIN q.val |-> Float64(q.val[i])]]
    ELSE NilArray

\* the bound on the difference of two elements that compare equal
NumericArrayTolerance == 1000000000

\* slices.EqualFunc over the converted arrays
compareNativeNumericArrays(value1, value2) ==
    LET array1 == convertNativeNumericArrayToFloat64Array(value1)
        array2 == convertNativeNumericArrayToFloat64Array(value2)
    IN IF array1.nil \/ array2.nil THEN FALSE
       ELSE /\ Len(array1.elems) = Len(array2.elems)
            /\ \A i \in DOMAIN array1.elems :
                   Abs(array1.elems[i].float64 - array2.elems[i].float64)
                       < NumericArrayTolerance

Equals(qv, other) ==
    IF valueEmpty(qv) /\ valueEmpty(other) THEN TRUE
    ELSE CASE qv.kind \in IntKinds ->
                other.kind \in IntKinds /\ qv.val = other.val
           [] qv.kind = "bool" -> other.kind = "bool" /\ qv.val = other.val
           [] qv.kind = "string" -> other.kind = "string" /\ qv.val = other.val
           [] qv.kind = "timestamp" ->
                other.kind \in TimeKinds /\ UnixMicro(qv.val) = UnixMicro(other.val)
           [] qv.kind = "time" -> other.kind = "time" /\ qv.val = other.val
           [] qv.kind = "date" ->
                other.kind \in TimeKinds /\ Date(qv.val) = Date(other.val)
           [] qv.kind = "numeric" ->
                other.kind = "numeric" /\ DecimalEqual(qv.val, other.val)
           [] qv.kind = "bytes" -> other.kind = "bytes" /\ qv.val = other.val
           [] qv.kind = "uuid" -> other.kind = "uuid" /\ qv.val = other.val
           [] qv.kind \in NativeNumericArrayKinds ->
                compareNativeNumericArrays(qv, other)
           [] OTHER -> FALSE

\* ------------------------------------------- the codec of the spill store
\* a signed integer on the wire: the sign in the lowest bit
EncodeInt(i) == IF i < 0 THEN 2 * (-i - 1) + 1 ELSE 2 * i
DecodeInt(u) == IF u % 2 = 1 THEN -((u - 1) \div 2) - 1 ELSE u \div 2

\* (faulty variant) a time written with the precision of a second
EncodeTimeSeconds(t) ==
    [sec |-> t.sec, nsec |-> 0,
     zone |-> IF t.loc = UTC THEN -1 ELSE t.loc.offset \div 60]

\* a time.Time on the wire: its instant and the offset of its zone in
\* minutes, -1 for UTC; the zone's name and the monotonic reading are not
\* written
EncodeTime(t) ==
    [sec |-> t.sec, nsec |-> t.nsec,
     zone |-> IF t.loc = UTC THEN -1 ELSE t.loc.offset \div 60]

DecodeTime(w) ==
    GoTime(w.sec, w.nsec,
           IF w.zone = -1 THEN UTC ELSE FixedZone("", w.zone * 60), FALSE)

\* a decimal on the wire: the exponent, then sign and magnitude of the value
EncodeDecimal(d) ==
    [exp |-> EncodeInt(d.exp), neg |-> d.value < 0,
     abs |-> IF d.value < 0 THEN -d.value ELSE d.value]

DecodeDecimal(w) ==
    Decimal(IF w.neg THEN -w.abs ELSE w.abs, DecodeInt(w.exp))

\* the codec is self-describing: every value is written with its kind
EncodeQValue(q) ==
    [tag |-> q.kind,
     bin |-> CASE q.kind \in IntKinds \cup {"time"} -> EncodeInt(q.val)
               [] q.kind = "bool" -> IF q.val THEN 1 ELSE 0
               [] q.kind \in TimeKinds -> EncodeTime(q.val)
               [] q.kind = "numeric" -> EncodeDecimal(q.val)
               [] OTHER -> q.val]

DecodeQValue(w) ==
    [kind |-> w.tag,
     val |-> CASE w.tag \in IntKinds \cup {"time"} -> DecodeInt(w.bin)
               [] w.tag = "bool" -> w.bin = 1
               [] w.tag \in TimeKinds -> DecodeTime(w.bin)
               [] w.tag = "numeric" -> DecodeDecimal(w.bin)
               [] OTHER -> w.bin]

\* a change record: its checkpoint and its items (column -> value)
EncodeRecord(rec) ==
    [CheckpointID |-> EncodeInt(rec.CheckpointID),
     Items |-> [c \in DOMAIN rec.Items |-> EncodeQValue(rec.Items[c])]]

DecodeRecord(w) ==
    [CheckpointID |-> DecodeInt(w.CheckpointID),
     Items |-> [c \in DOMAIN w.Items |-> DecodeQValue(w.Items[c])]]

\* ------------------------------------------- the change buffer (cdcStore)
MaxKeys == 3
MaxSets == 4

\* model.TableWithPkey{}: no table, the all-zero primary-key hash
NullKey == [TableName |-> "", PkeyColVal |-> 0]
\* the key of a record of test_src_tbl with primary-key hash h
TableWithPkey(h) == [TableName |-> "test_src_tbl", PkeyColVal |-> h]
StoreKeys == {TableWithPkey(h) : h \in 1..MaxKeys}

\* (faulty variant) a key of all zeroes is a key like the others
IsNullKeyNever(key) == key.PkeyColVal < 0
IsNullKey(key) == key.PkeyColVal = 0

\* the stand-in of decimalForTesting, decimal.New(9876543210, 123)
decimalForTesting == Decimal(9876, 123)

\* genKeyAndRec: the record of the store's tests, with checkpoint cp; its
\* duration stands for timeForTesting
GenRec(cp) ==
    [CheckpointID |-> cp,
     Items |-> [c \in {"id", "ts", "rv"} |->
                  CASE c = "id" -> QValueInt64(1)
                    [] c = "ts" -> QValueTime(1834212)
                    [] c = "rv" -> QValueNumeric(decimalForTesting)]]

\* the values of a bounded choice of every kind
QValues ==
    {QValueBoolean(b) : b \in BOOLEAN}
    \cup {QValueInt32(i) : i \in {-1, 7}}
    \cup {QValueInt64(i) : i \in {-2, 0, 3}}
    \cup {QValueString(s) : s \in {"", "null", "x"}}
    \cup {QValueBytes(s) : s \in {<<>>, <<0, 255>>}}
    \cup {QValueUUID(<<1, 2, 3, 4>>)}
    \cup {QValueNumeric(Decimal(v, e)) : v \in {-5, 0, 50, 9876}, e \in {-2, -1, 123}}
    \cup {QValueTime(d) : d \in {0, 1500, 1834212}}
    \cup {QValueTimestamp(GoTime(s, n, l, m)) :
            s \in {0, 1700}, n \in {0, 123456789},
            l \in {UTC, FixedZone("EST", -18000)}, m \in BOOLEAN}
    \cup {QValueDate(GoTime(s, 0, l, FALSE)) :
            s \in {0, 86400 + 3600}, l \in {UTC, FixedZone("EST", -18000)}}

\* records of one value each
ValueRecords == {[CheckpointID |-> 1, Items |-> [v \in {"v"} |-> q]] : q \in QValues}

NoRecord == [CheckpointID |-> 0, Items |-> <<>>]
NoDB == [open |-> FALSE, kv |-> <<>>]

\* NewCDCStore, then numRecordsSwitchThreshold is set; keys, recs and sets
\* are the keys and records its caller uses and the number of its Set calls.
\* History: lastSet and nset hold, for every keyed key, the record of its
\* last Set and the number of its Sets, lastKey the key of the last Set
NewCDCStore(threshold, keys, recs, sets) ==
    [numRecordsSwitchThreshold |-> threshold,
     inMemoryRecords |-> <<>>,
     pebbleDB |-> NoDB,
     unkeyed |-> <<>>,
     lastSet |-> <<>>, nset |-> <<>>, lastKey |-> NullKey,
     got |-> [key |-> NullKey, rec |-> NoRecord, ok |-> FALSE, called |-> FALSE],
     keys |-> keys, recs |-> recs, sets |-> sets, calls |-> 0]

\* no change buffer in use
NoStore == NewCDCStore(0, {}, {}, 0)

\* a function with one more, or one replaced, entry
Put(f, k, v) == [x \in DOMAIN f \cup {k} |-> IF x = k THEN v ELSE f[x]]

\* (faulty variant) the map takes one record more than the threshold
InMemoryTierOneMore(s, key) ==
    \/ key \in DOMAIN s.inMemoryRecords
    \/ Cardinality(DOMAIN s.inMemoryRecords) <= s.numRecordsSwitchThreshold

\* (faulty variant) a key that is in memory is written to the spill store
\* once the map is full
InMemoryTierNoOverwrite(s, key) ==
    Cardinality(DOMAIN s.inMemoryRecords) < s.numRecordsSwitchThreshold

\* Set keeps the record in memory when the key is there already or the map
\* holds fewer than numRecordsSwitchThreshold records
InMemoryTier(s, key) ==
    \/ key \in DOMAIN s.inMemoryRecords
    \/ Cardinality(DOMAIN s.inMemoryRecords) < s.numRecordsSwitchThreshold

\* the history of the Set calls
Noted(s, key, rec) ==
    [s EXCEPT !.lastKey = key,
              !.lastSet = IF key = NullKey THEN @ ELSE Put(@, key, rec),
              !.nset = IF key = NullKey THEN @
                       ELSE Put(@, key, IF key \in DOMAIN @ THEN @[key] + 1 ELSE 1)]

\* Set(key, rec)
Set(s, key, rec) ==
    IF IsNullKey(key)
    THEN [s EXCEPT !.unkeyed = Append(@, rec)]
    ELSE IF InMemoryTier(s, key)
         THEN [s EXCEPT !.inMemoryRecords = Put(@, key, rec)]
         ELSE [s EXCEPT !.pebbleDB = [open |-> TRUE,
                                      kv |-> Put(@.kv, key, EncodeRecord(rec))]]

\* Get(key): the in-memory map first, then the spill store
Get(s, key) ==
    IF key \in DOMAIN s.inMemoryRecords
    THEN [key |-> key, rec |-> s.inMemoryRecords[key], ok |-> TRUE, called |-> TRUE]
    ELSE IF s.pebbleDB.open /\ key \in DOMAIN s.pebbleDB.kv
         THEN [key |-> key, rec |-> DecodeRecord(s.pebbleDB.kv[key]), ok |-> TRUE,
               called |-> TRUE]
         ELSE [key |-> key, rec |-> NoRecord, ok |-> FALSE, called |-> TRUE]

\* Len(): the number of stored records
StoreLen(s) ==
    Cardinality(DOMAIN s.inMemoryRecords) + Cardinality(DOMAIN s.pebbleDB.kv)
    + Len(s.unkeyed)

otherVars ==
    <<last_offset, last_sync_batch_id, last_normalize_batch_id, raw, dest,
      softDelete, sy, nz, batchRecords, columns, batchDeltas, env, hist>>

\* a Set call of the sync step
CdcStore_Set ==
    /\ store.calls < store.sets
    /\ \E key \in store.keys \cup {NullKey}, rec \in store.recs :
          store' = [Noted(Set(store, key, rec), key, rec) EXCEPT
                       !.calls = @ + 1,
                       !.got = NoStore.got]
    /\ UNCHANGED <<otherVars, cls, sideVars>>

\* a Get call
CdcStore_Get ==
    /\ store.calls > 0
    /\ \E key \in store.keys :
          store' = [store EXCEPT !.got = Get(store, key)]
    /\ UNCHANGED <<otherVars, cls, sideVars>>

\* ------------------------------------------------ the error classifier
NotifyUser == "notify_user"
Ignore == "ignore"
NotifyTelemetry == "notify_telemetry"

ErrorSourceClickHouse == "clickhouse"
ErrorSourcePostgres == "postgres"
ErrorSourceMySQL == "mysql"
ErrorSourcePostgresCatalog == "postgres_catalog"
ErrorSourceSSH == "ssh_tunnel"
ErrorSourceNet == "net"
ErrorSourceOther == "other"

ErrorInfo(source, code) == [Source |-> source, Code |-> code]

\* the error classes and their actions
ErrorClasses ==
    [ErrorNotifyDestinationModified |->
        [Class |-> "NOTIFY_DESTINATION_MODIFIED", action |-> NotifyUser],
     ErrorNotifyOOM |->
        [Class |-> "NOTIFY_OOM", action |-> NotifyUser],
     ErrorNotifyMVOrView |->
        [Class |-> "NOTIFY_MV_OR_VIEW", action |-> NotifyUser],
     ErrorNotifyBinlogInvalid |->
        [Class |-> "NOTIFY_BINLOG_INVALID", action |-> NotifyUser],
     ErrorUnsupportedDatatype |->
        [Class |-> "NOTIFY_UNSUPPORTED_DATATYPE", action |-> NotifyUser],
     ErrorIgnoreConnTemporary |->
        [Class |-> "IGNORE_CONN_TEMPORARY", action |-> Ignore],
     ErrorInternalClickHouse |->
        [Class |-> "INTERNAL_CLICKHOUSE", action |-> NotifyTelemetry],
     ErrorLossyConversion |->
        [Class |-> "WARNING_LOSSY_CONVERSION", action |-> NotifyTelemetry],
     ErrorNotifyConnectivity |->
        [Class |-> "NOTIFY_CONNECTIVITY", action |-> NotifyUser],
     ErrorNotifyOOMSource |->
        [Class |-> "NOTIFY_OOM_SOURCE", action |-> NotifyUser],
     ErrorNotifySlotInvalid |->
        [Class |-> "NOTIFY_SLOT_INVALID", action |-> NotifyUser],
     ErrorNotifySourceTableMissing |->
        [Class |-> "NOTIFY_SOURCE_TABLE_MISSING", action |-> NotifyUser],
     ErrorNotifyPublicationMissing |->
        [Class |-> "NOTIFY_PUBLICATION_MISSING", action |-> NotifyUser],
     ErrorNotifyInvalidSnapshotIdentifier |->
        [Class |-> "NOTIFY_INVALID_SNAPSHOT_IDENTIFIER", action |-> NotifyUser],
     ErrorNotifyTerminate |->
        [Class |-> "NOTIFY_TERMINATE", action |-> NotifyUser],
     ErrorInternal |->
        [Class |-> "INTERNAL", action |-> NotifyTelemetry],
     ErrorDropFlow |->
        [Class |-> "DROP_FLOW", action |-> NotifyTelemetry],
     ErrorIgnoreEOF |->
        [Class |-> "IGNORE_EOF", action |-> Ignore],
     ErrorIgnoreContextCancelled |->
        [Class |-> "IGNORE_CONTEXT_CANCELLED", action |-> Ignore],
     ErrorRetryRecoverable |->
        [Class |-> "ERROR_RETRY_RECOVERABLE", action |-> NotifyTelemetry],
     ErrorOther |->
        [Class |-> "OTHER", action |-> NotifyTelemetry]]

\* ErrorClass.ErrorAction
ErrorAction(e) == IF e.action # "" THEN e.action ELSE NotifyTelemetry

\* An error value is the tree of the errors it wraps.  is: the sentinel
\* errors errors.Is finds in it; as: the error types errors.As finds in it;
\* response: code and message of its Postgres error, that of the WAL error's
\* UnderlyingError when it holds a PostgresWalError, else that of its PgError
Sentinels ==
    {"context.Canceled", "io.EOF", "io.ErrUnexpectedEOF", "mysql.ErrBadConn",
     "shared.ErrTableDoesNotExist"}
ErrorTypes ==
    {"PgError", "PostgresWalError", "CatalogError", "DropFlowError",
     "PostgresSetupError", "ConnectError", "mysql.MyError", "clickhouse.Exception",
     "QRepSyncError", "NormalizationError", "net.OpError", "ssh.OpenChannelError",
     "SSHTunnelSetupError", "net.DNSError", "PeerCreateError",
     "NumericOutOfRangeError", "NumericTruncatedError"}

errorsIs(err, target) == target \in err.is
errorsAs(err, type) == type \in err.as

\* a message is the sequence of its parts: the phrases the classifier looks
\* for, other text ("x") and line breaks ("\n")
PublicationOpen == "publication \""
DoesNotExistClose == "\" does not exist"

HasPrefix(msg, part) == Len(msg) > 0 /\ msg[1] = part
HasSuffix(msg, part) == Len(msg) > 0 /\ msg[Len(msg)] = part
Contains(msg, part) == \E i \in DOMAIN msg : msg[i] = part

\* PostgresPublicationDoesNotExistRe, publication ".*?" does not exist,
\* matches somewhere in the message: after an opening, the first closing is
\* reached without a line break
PostgresPublicationDoesNotExistRe(msg) ==
    \E i, j \in DOMAIN msg :
        /\ i < j /\ msg[i] = PublicationOpen /\ msg[j] = DoesNotExistClose
        /\ \A k \in (i + 1)..(j - 1) : msg[k] \notin {"\n", DoesNotExistClose}

\* PostgresWalSegmentRemovedRe, requested WAL segment \w+ has already been
\* removed: one word between the two phrases
PostgresWalSegmentRemovedRe(msg) ==
    \E i \in DOMAIN msg :
        /\ i + 2 \in DOMAIN msg
        /\ msg[i] = "requested WAL segment " /\ msg[i + 1] = "x"
        /\ msg[i + 2] = " has already been removed"

\* the SQLSTATE codes of pgerrcode that the classifier names
pgerrcode ==
    [InvalidAuthorizationSpecification |-> "28000", InvalidPassword |-> "28P01",
     InsufficientPrivilege |-> "42501", UndefinedTable |-> "42P01",
     CannotConnectNow |-> "57P03", ConfigurationLimitExceeded |-> "53400",
     DiskFull |-> "53100", UndefinedObject |-> "42704", AdminShutdown |-> "57P01",
     IdleSessionTimeout |-> "57P05", InternalError |-> "XX000",
     ObjectNotInPrerequisiteState |-> "55000", InvalidParameterValue |-> "22023",
     SerializationFailure |-> "40001", DeadlockDetected |-> "40P01",
     TooManyConnections |-> "53300", ConnectionException |-> "08000",
     ConnectionDoesNotExist |-> "08003", ConnectionFailure |-> "08006",
     SQLClientUnableToEstablishSQLConnection |-> "08001",
     SQLServerRejectedEstablishmentOfSQLConnection |-> "08004",
     ProtocolViolation |-> "08P01", OutOfMemory |-> "53200",
     QueryCanceled |-> "57014"]

NoResponse == [Code |-> "", Message |-> <<>>]
NoClass == [Class |-> "", action |-> ""]
\* no branch returns: the next statement is reached
Falls == [class |-> NoClass, info |-> ErrorInfo("", "")]
Returns(class, info) == [class |-> class, info |-> info]

\* pgErr != nil after lines 160-164
HasPgErr(err) == errorsAs(err, "PostgresWalError") \/ errorsAs(err, "PgError")

\* (faulty variant) the wrapping error decides also without a Postgres error
WrappedPostgresErrorAlways(err) ==
    LET pgErrorInfo == ErrorInfo(ErrorSourcePostgres, err.response.Code)
    IN IF errorsAs(err, "CatalogError") THEN Returns(ErrorClasses.ErrorInternal, pgErrorInfo)
       ELSE IF errorsAs(err, "DropFlowError")
            THEN Returns(ErrorClasses.ErrorDropFlow, pgErrorInfo)
       ELSE IF errorsAs(err, "PostgresSetupError")
            THEN Returns(ErrorClasses.ErrorNotifyConnectivity, pgErrorInfo)
       ELSE Falls

\* lines 164-206: a Postgres error inside a catalog, drop-flow or setup error
WrappedPostgresError(err) ==
    LET pgErrorInfo == ErrorInfo(ErrorSourcePostgres, err.response.Code)
    IN IF ~HasPgErr(err) THEN Falls
       ELSE IF errorsAs(err, "CatalogError") THEN Returns(ErrorClasses.ErrorInternal, pgErrorInfo)
       ELSE IF errorsAs(err, "DropFlowError")
            THEN Returns(ErrorClasses.ErrorDropFlow, pgErrorInfo)
       ELSE IF errorsAs(err, "PostgresSetupError")
            THEN Returns(ErrorClasses.ErrorNotifyConnectivity, pgErrorInfo)
       ELSE Falls

\* lines 208-229: the sentinel errors
SentinelError(err) ==
    IF errorsIs(err, "context.Canceled")
    THEN Returns(ErrorClasses.ErrorIgnoreContextCancelled,
                 ErrorInfo(ErrorSourceOther, "CONTEXT_CANCELLED"))
    ELSE IF \/ errorsIs(err, "io.EOF") \/ errorsIs(err, "io.ErrUnexpectedEOF")
            \/ errorsIs(err, "mysql.ErrBadConn")
         THEN Returns(ErrorClasses.ErrorIgnoreEOF, ErrorInfo(ErrorSourceNet, "EOF"))
    ELSE IF errorsIs(err, "shared.ErrTableDoesNotExist")
         THEN Returns(ErrorClasses.ErrorNotifySourceTableMissing,
                      ErrorInfo(ErrorSourcePostgres, "TABLE_DOES_NOT_EXIST"))
    ELSE Falls

\* (faulty variant) every undefined object is a missing publication
UndefinedObjectAnyMessage(msg) == ErrorClasses.ErrorNotifyPublicationMissing

\* lines 243-248: case pgerrcode.UndefinedObject
UndefinedObjectClass(msg) ==
    IF PostgresPublicationDoesNotExistRe(msg) THEN ErrorClasses.ErrorNotifyPublicationMissing
    ELSE ErrorClasses.ErrorNotifyConnectivity

\* lines 232-314: the switch over pgErr.Code
PostgresError(err) ==
    LET code == err.response.Code
        msg == err.response.Message
        pgErrorInfo == ErrorInfo(ErrorSourcePostgres, code)
    IN IF ~HasPgErr(err) THEN Falls
       ELSE CASE code \in {pgerrcode.InvalidAuthorizationSpecification,
                            pgerrcode.InvalidPassword, pgerrcode.InsufficientPrivilege,
                            pgerrcode.UndefinedTable, pgerrcode.CannotConnectNow,
                            pgerrcode.ConfigurationLimitExceeded, pgerrcode.DiskFull} ->
                    Returns(ErrorClasses.ErrorNotifyConnectivity, pgErrorInfo)
              [] code = pgerrcode.UndefinedObject ->
                    Returns(UndefinedObjectClass(msg), pgErrorInfo)
              [] code \in {pgerrcode.AdminShutdown, pgerrcode.IdleSessionTimeout} ->
                    Returns(ErrorClasses.ErrorNotifyTerminate, pgErrorInfo)
              [] code = pgerrcode.InternalError ->
                    IF \/ HasPrefix(msg, "could not read from reorderbuffer spill file")
                       \/ /\ HasPrefix(msg, "could not stat file ")
                          /\ HasSuffix(msg, "Stale file handle")
                       \/ HasPrefix(msg, "Internal error encountered during logical decoding")
                       \/ HasPrefix(msg, "could not find record while sending logically-decoded data")
                    THEN Returns(ErrorClasses.ErrorRetryRecoverable, pgErrorInfo)
                    ELSE IF PostgresWalSegmentRemovedRe(msg)
                         THEN Returns(ErrorClasses.ErrorRetryRecoverable, pgErrorInfo)
                    ELSE IF Contains(msg,
                                "Your account or project has exceeded the compute time quota. Upgrade your plan to increase limits.")
                         THEN Returns(ErrorClasses.ErrorNotifyConnectivity, pgErrorInfo)
                    ELSE Returns(ErrorClasses.ErrorOther, pgErrorInfo)
              [] code = pgerrcode.ObjectNotInPrerequisiteState ->
                    IF \/ Contains(msg, "cannot read from logical replication slot")
                       \/ Contains(msg, "can no longer get changes from replication slot")
                       \/ Contains(msg, "could not import the requested snapshot")
                    THEN Returns(ErrorClasses.ErrorNotifySlotInvalid, pgErrorInfo)
                    ELSE Falls
              [] code = pgerrcode.InvalidParameterValue ->
                    IF Contains(msg, "invalid snapshot identifier")
                    THEN Returns(ErrorClasses.ErrorNotifyInvalidSnapshotIdentifier, pgErrorInfo)
                    ELSE Falls
              [] code \in {pgerrcode.SerializationFailure, pgerrcode.DeadlockDetected} ->
                    IF Contains(msg, "canceling statement due to conflict with recovery")
                    THEN Returns(ErrorClasses.ErrorNotifyConnectivity, pgErrorInfo)
                    ELSE Falls
              [] code \in {pgerrcode.TooManyConnections, pgerrcode.ConnectionException,
                            pgerrcode.ConnectionDoesNotExist, pgerrcode.ConnectionFailure,
                            pgerrcode.SQLClientUnableToEstablishSQLConnection,
                            pgerrcode.SQLServerRejectedEstablishmentOfSQLConnection,
                            pgerrcode.ProtocolViolation} ->
                    Returns(ErrorClasses.ErrorNotifyConnectivity, pgErrorInfo)
              [] code = pgerrcode.OutOfMemory ->
                    Returns(ErrorClasses.ErrorNotifyOOMSource, pgErrorInfo)
              [] code = pgerrcode.QueryCanceled ->
                    Returns(ErrorClasses.ErrorRetryRecoverable, pgErrorInfo)
              [] OTHER -> Falls

\* the first of the results that returns
FirstOf(results) ==
    LET returning == {i \in DOMAIN results : results[i] # Falls}
    IN IF returning = {} THEN Falls
       ELSE results[CHOOSE i \in returning : \A j \in returning : i <= j]

\* lines 324-365: a MySQL error and the switch over its code
MySQLError(err) ==
    LET myErr == err.my
        myErrorInfo == ErrorInfo(ErrorSourceMySQL, ToString(myErr.Code))
    IN IF ~errorsAs(err, "mysql.MyError") THEN Falls
       ELSE CASE myErr.Code \in {1037, 1038, 1041, 3015} ->
                    Returns(ErrorClasses.ErrorNotifyOOMSource, myErrorInfo)
              [] myErr.Code \in {1021, 1040, 1044, 1045, 1049, 1051, 1053, 1102, 1103,
                                 1109, 1119, 1129, 1130, 1133, 1135, 1152, 1194, 1195,
                                 1827} ->
                    Returns(ErrorClasses.ErrorNotifyConnectivity, myErrorInfo)
              [] myErr.Code \in {1236, 1373} ->
                    Returns(ErrorClasses.ErrorNotifyBinlogInvalid, myErrorInfo)
              [] myErr.Code = 1105 ->
                    IF /\ myErr.State = "HY000"
                       /\ myErr.Message =
                            <<"The last transaction was aborted due to Zero Downtime Patch. Please retry.">>
                    THEN Returns(ErrorClasses.ErrorRetryRecoverable, myErrorInfo)
                    ELSE Returns(ErrorClasses.ErrorOther, myErrorInfo)
              [] OTHER -> Returns(ErrorClasses.ErrorOther, myErrorInfo)

\* the ClickHouse error codes of chproto that the classifier names
chproto ==
    [ErrUnsupportedMethod |-> 1, ErrNotFoundColumnInBlock |-> 10,
     ErrDuplicateColumn |-> 15, ErrNoSuchColumnInTable |-> 16,
     ErrIllegalTypeOfArgument |-> 43, ErrIllegalColumn |-> 44,
     ErrUnknownFunction |-> 46, ErrUnknownIdentifier |-> 47,
     ErrNotImplemented |-> 48, ErrTypeMismatch |-> 53, ErrUnknownTable |-> 60,
     ErrCannotConvertType |-> 70, ErrUnknownDatabase |-> 81,
     ErrIncompatibleColumns |-> 122, ErrBadTypeOfField |-> 169,
     ErrUnexpectedExpression |-> 183, ErrIllegalAggregation |-> 184,
     ErrSizesOfArraysDoesntMatch |-> 190, ErrTooManySimultaneousQueries |-> 202,
     ErrAliasRequired |-> 206, ErrNotAnAggregate |-> 215, ErrAborted |-> 236,
     ErrMemoryLimitExceeded |-> 241, ErrTooManyParts |-> 252,
     ErrTooDeepRecursion |-> 306, ErrValueIsOutOfRangeOfDataType |-> 321,
     ErrUnfinished |-> 341, ErrCannotInsertNullInOrdinaryColumn |-> 349,
     ErrCannotParseUUID |-> 376, ErrNoCommonType |-> 386,
     ErrQueryWasCancelled |-> 394, ErrAccessEntityNotFound |-> 492,
     ErrAuthenticationFailed |-> 516, ErrKeeperException |-> 999,
     ErrPocoException |-> 1000]

\* (faulty variant) no exception comes from pushing to a view
isClickHouseMvErrorNever(exception) == FALSE

isClickHouseMvError(exception) == Contains(exception.Message, "while pushing to view")

\* ClickHouseDecimalParsingRe: the parts of the message are the phrase with
\* its four numbers, "1" standing for a run of digits
ClickHouseDecimalParsingRe(msg) ==
    \E i \in DOMAIN msg :
        /\ i + 7 \in DOMAIN msg
        /\ SubSeq(msg, i, i + 7) =
             <<"Cannot parse type Decimal(", "1", ", ", "1",
               "), expected non-empty binary data with size equal to or less than ",
               "1", ", got ", "1">>

\* ClickHouseNotFoundInUserDirsRe: ID(...) not found in user directories,
\* the two backquotes optional
ClickHouseNotFoundInUserDirsRe(msg) ==
    \E i \in DOMAIN msg :
        /\ i + 2 \in DOMAIN msg
        /\ msg[i] = "ID(" /\ msg[i + 1] = "a1-" /\ msg[i + 2] = ") not found in "
        /\ \/ /\ i + 3 \in DOMAIN msg /\ msg[i + 3] = "user directories"
           \/ /\ i + 4 \in DOMAIN msg /\ msg[i + 3] = "(backquote)"
              /\ msg[i + 4] = "user directories"

\* unexpectedSelectRe: FROM, white space, the destination table with or
\* without its database
unexpectedSelectRe(qrepSyncError, msg) ==
    \E i \in DOMAIN msg :
        /\ msg[i] = "FROM" /\ i + 2 \in DOMAIN msg /\ msg[i + 1] = " "
        /\ \/ msg[i + 2] = qrepSyncError.DestinationTable
           \/ /\ i + 4 \in DOMAIN msg
              /\ msg[i + 2] = qrepSyncError.DestinationDatabase
              /\ msg[i + 3] = "." /\ msg[i + 4] = qrepSyncError.DestinationTable

\* lines 367-455: a ClickHouse exception, the switch over its code and the
\* normalization error after it
ClickHouseError(err) ==
    LET chException == err.ch
        code == chException.Code
        chErrorInfo == ErrorInfo(ErrorSourceClickHouse, ToString(code))
        MvOrFalls == IF isClickHouseMvError(chException)
                     THEN Returns(ErrorClasses.ErrorNotifyMVOrView, chErrorInfo)
                     ELSE Falls
        switch ==
          CASE code \in {chproto.ErrUnknownTable, chproto.ErrNoSuchColumnInTable} ->
                  IF isClickHouseMvError(chException)
                  THEN Returns(ErrorClasses.ErrorNotifyMVOrView, chErrorInfo)
                  ELSE Returns(ErrorClasses.ErrorNotifyDestinationModified, chErrorInfo)
            [] code = chproto.ErrMemoryLimitExceeded ->
                  Returns(ErrorClasses.ErrorNotifyOOM, chErrorInfo)
            [] code \in {chproto.ErrCannotInsertNullInOrdinaryColumn,
                         chproto.ErrNotImplemented, chproto.ErrTooManyParts} -> MvOrFalls
            [] code = chproto.ErrUnknownDatabase ->
                  Returns(ErrorClasses.ErrorNotifyConnectivity, chErrorInfo)
            [] code \in {chproto.ErrKeeperException, chproto.ErrUnfinished,
                         chproto.ErrAborted} ->
                  Returns(ErrorClasses.ErrorInternalClickHouse, chErrorInfo)
            [] code = chproto.ErrAuthenticationFailed ->
                  Returns(ErrorClasses.ErrorRetryRecoverable, chErrorInfo)
            [] code = chproto.ErrTooManySimultaneousQueries ->
                  Returns(ErrorClasses.ErrorIgnoreConnTemporary, chErrorInfo)
            [] code \in {chproto.ErrCannotParseUUID,
                         chproto.ErrValueIsOutOfRangeOfDataType} ->
                  IF ClickHouseDecimalParsingRe(chException.Message)
                  THEN Returns(ErrorClasses.ErrorUnsupportedDatatype, chErrorInfo)
                  ELSE Falls
            [] code = chproto.ErrAccessEntityNotFound ->
                  IF ClickHouseNotFoundInUserDirsRe(chException.Message)
                  THEN Returns(ErrorClasses.ErrorRetryRecoverable, chErrorInfo)
                  ELSE Falls
            [] code = 439 -> Returns(ErrorClasses.ErrorRetryRecoverable, chErrorInfo)
            [] code \in {chproto.ErrUnsupportedMethod, chproto.ErrIllegalColumn,
                         chproto.ErrDuplicateColumn, chproto.ErrNotFoundColumnInBlock,
                         chproto.ErrUnknownIdentifier, chproto.ErrUnknownFunction,
                         chproto.ErrBadTypeOfField, chproto.ErrTooDeepRecursion,
                         chproto.ErrTypeMismatch, chproto.ErrCannotConvertType,
                         chproto.ErrIncompatibleColumns, chproto.ErrUnexpectedExpression,
                         chproto.ErrIllegalAggregation, chproto.ErrNotAnAggregate,
                         chproto.ErrSizesOfArraysDoesntMatch, chproto.ErrAliasRequired,
                         691, chproto.ErrNoCommonType,
                         chproto.ErrIllegalTypeOfArgument} ->
                  IF errorsAs(err, "QRepSyncError")
                  THEN IF unexpectedSelectRe(err.qrep, chException.Message)
                       THEN Returns(ErrorClasses.ErrorNotifyMVOrView, chErrorInfo)
                       ELSE Falls
                  ELSE MvOrFalls
            [] code \in {chproto.ErrQueryWasCancelled, chproto.ErrPocoException} ->
                  Returns(ErrorClasses.ErrorRetryRecoverable, chErrorInfo)
            [] OTHER ->
                  IF isClickHouseMvError(chException)
                  THEN Returns(ErrorClasses.ErrorNotifyMVOrView, chErrorInfo)
                  ELSE Returns(ErrorClasses.ErrorOther, chErrorInfo)
    IN IF ~errorsAs(err, "clickhouse.Exception") THEN Falls
       ELSE IF switch # Falls THEN switch
       ELSE IF errorsAs(err, "NormalizationError")
            THEN Returns(ErrorClasses.ErrorNotifyMVOrView, chErrorInfo)
       ELSE Falls

\* AvroConverterTableColumnErrorSource: the prefix with table.column
AvroConverterTableColumnErrorSource(destinationTable, destinationColumn) ==
    <<"avroConverter:column:", destinationTable, ".", destinationColumn>>

\* lines 458-529: connection resets, network, ssh, peer creation and
\* numeric conversion errors
NetworkError(err) ==
    IF errorsIs(err, "syscall.ECONNRESET")
    THEN Returns(ErrorClasses.ErrorIgnoreConnTemporary,
                 ErrorInfo(ErrorSourceNet, "connection reset by peer"))
    ELSE IF errorsIs(err, "net.ErrClosed")
    THEN Returns(ErrorClasses.ErrorIgnoreConnTemporary,
                 ErrorInfo(ErrorSourceNet, "net.ErrClosed"))
    ELSE IF errorsAs(err, "net.OpError")
    THEN Returns(ErrorClasses.ErrorNotifyConnectivity,
                 ErrorInfo(ErrorSourceNet, err.detail.Err))
    ELSE IF errorsAs(err, "ssh.OpenChannelError")
    THEN Returns(ErrorClasses.ErrorNotifyConnectivity,
                 ErrorInfo(ErrorSourceSSH, err.detail.Reason))
    ELSE IF errorsAs(err, "SSHTunnelSetupError")
    THEN Returns(ErrorClasses.ErrorNotifyConnectivity,
                 ErrorInfo(ErrorSourceSSH, "UNKNOWN"))
    ELSE IF errorsAs(err, "net.DNSError")
    THEN Returns(ErrorClasses.ErrorNotifyConnectivity,
                 ErrorInfo(ErrorSourceNet, "net.DNSError"))
    ELSE IF /\ errorsAs(err, "PeerCreateError")
            /\ errorsIs(err, "PeerCreateError: context.DeadlineExceeded")
    THEN Returns(ErrorClasses.ErrorNotifyConnectivity,
                 ErrorInfo(ErrorSourceOther, "CONTEXT_DEADLINE_EXCEEDED"))
    ELSE IF errorsAs(err, "NumericOutOfRangeError")
    THEN Returns(ErrorClasses.ErrorLossyConversion,
                 ErrorInfo(AvroConverterTableColumnErrorSource(
                               err.detail.DestinationTable,
                               err.detail.DestinationColumn),
                           "NUMERIC_OUT_OF_RANGE"))
    ELSE IF errorsAs(err, "NumericTruncatedError")
    THEN Returns(ErrorClasses.ErrorLossyConversion,
                 ErrorInfo(AvroConverterTableColumnErrorSource(
                               err.detail.DestinationTable,
                               err.detail.DestinationColumn),
                           "NUMERIC_TRUNCATED"))
    ELSE Falls

\* (faulty variant) an unclassified error gets no class
DefaultClassNone(err) == Falls

\* lines 531-534: the class of an error that no branch returned for
DefaultClass(err) ==
    Returns(ErrorClasses.ErrorOther, ErrorInfo(ErrorSourceOther, "UNKNOWN"))

\* lines 316-535: the connect error, the MySQL, ClickHouse and network
\* errors, and the default
OtherError(err) ==
    FirstOf(<<IF errorsAs(err, "ConnectError")
              THEN Returns(ErrorClasses.ErrorNotifyConnectivity,
                           ErrorInfo(ErrorSourcePostgres, "UNKNOWN"))
              ELSE Falls,
              MySQLError(err), ClickHouseError(err), NetworkError(err),
              DefaultClass(err)>>)

GetErrorClass(err) ==
    FirstOf(<<WrappedPostgresError(err), SentinelError(err), PostgresError(err),
              OtherError(err)>>)

\* the messages and responses of the error values
Messages ==
    {<<>>, <<"x">>,
     <<PublicationOpen, "x", DoesNotExistClose>>,
     <<"x", PublicationOpen, "x", DoesNotExistClose, "x">>,
     <<PublicationOpen, DoesNotExistClose>>,
     <<PublicationOpen, "x", "\n", DoesNotExistClose>>,
     <<PublicationOpen, "x", DoesNotExistClose, "\n", PublicationOpen, "x">>,
     <<PublicationOpen, "x">>,
     <<"x", DoesNotExistClose>>,
     <<DoesNotExistClose, PublicationOpen>>,
     <<"could not read from reorderbuffer spill file", "x">>,
     <<"could not stat file ", "x", "Stale file handle">>,
     <<"requested WAL segment ", "x", " has already been removed">>,
     <<"x",
       "Your account or project has exceeded the compute time quota. Upgrade your plan to increase limits.">>,
     <<"x", "cannot read from logical replication slot">>, <<"invalid snapshot identifier">>, <<"canceling statement due to conflict with recovery">>}

Codes ==
    {pgerrcode.UndefinedObject, pgerrcode.UndefinedTable, pgerrcode.AdminShutdown,
     pgerrcode.InternalError, pgerrcode.ObjectNotInPrerequisiteState,
     pgerrcode.InvalidParameterValue, pgerrcode.SerializationFailure,
     pgerrcode.ConnectionFailure, pgerrcode.OutOfMemory, pgerrcode.QueryCanceled,
     "23505"}

\* the error values without a MySQL error, a ClickHouse exception, or the
\* fields of the network and conversion errors
NoMyError == [Code |-> 0, State |-> "", Message |-> <<>>]
NoException == [Code |-> 0, Message |-> <<>>]
NoQRep == [DestinationDatabase |-> "", DestinationTable |-> ""]
NoDetail == [Err |-> "", Reason |-> "", DestinationTable |-> "", DestinationColumn |-> ""]
ErrorValue(is, as, response) ==
    [is |-> is, as |-> as, response |-> response, my |-> NoMyError,
     ch |-> NoException, qrep |-> NoQRep, detail |-> NoDetail]

ChCodes ==
    {chproto.ErrUnknownTable, chproto.ErrNoSuchColumnInTable,
     chproto.ErrMemoryLimitExceeded, chproto.ErrTooManyParts,
     chproto.ErrUnknownDatabase, chproto.ErrAborted,
     chproto.ErrValueIsOutOfRangeOfDataType, chproto.ErrAccessEntityNotFound,
     439, chproto.ErrTypeMismatch, chproto.ErrQueryWasCancelled, 27}

ChMessages ==
    {<<>>, <<"x">>, <<"x", "while pushing to view", "x">>,
     <<"while pushing to view">>,
     <<"Cannot parse type Decimal(", "1", ", ", "1",
       "), expected non-empty binary data with size equal to or less than ",
       "1", ", got ", "1">>,
     <<"Cannot parse type Decimal(", "x", ", ", "1",
       "), expected non-empty binary data with size equal to or less than ",
       "1", ", got ", "1">>,
     <<"ID(", "a1-", ") not found in ", "(backquote)", "user directories", "(backquote)">>,
     <<"x", "FROM", " ", "db", ".", "tbl">>, <<"FROM", " ", "tbl", "x">>,
     <<"FROM", "tbl">>}

MyErrors ==
    {[Code |-> c, State |-> st, Message |-> m] :
        c \in {1037, 1045, 1236, 1105, 1062},
        st \in {"HY000", "42000"},
        m \in {<<"x">>,
               <<"The last transaction was aborted due to Zero Downtime Patch. Please retry.">>}}

ErrorValues ==
    {ErrorValue(i, a, NoResponse) :
        i \in SUBSET Sentinels,
        a \in {{}, {"CatalogError"}, {"DropFlowError"}, {"ConnectError"},
               {"PostgresSetupError"}}}
    \cup {ErrorValue(i, a \cup w, [Code |-> c, Message |-> m]) :
            i \in {{}, {"context.Canceled"}, {"io.EOF"}, {"io.ErrUnexpectedEOF"},
                   {"context.Canceled", "io.EOF"}, {"shared.ErrTableDoesNotExist"}},
            a \in {{"PgError"}, {"PostgresWalError"}, {"PgError", "PostgresWalError"}},
            w \in {{}, {"CatalogError"}, {"DropFlowError"}, {"PostgresSetupError"},
                   {"ConnectError"}, {"CatalogError", "DropFlowError"}},
            c \in Codes, m \in Messages}
    \cup {[ErrorValue(i, {"clickhouse.Exception"} \cup w, NoResponse)
             EXCEPT !.ch = [Code |-> c, Message |-> m],
                    !.qrep = [DestinationDatabase |-> "db", DestinationTable |-> "tbl"]] :
            i \in {{}, {"context.Canceled"}, {"io.EOF"}, {"syscall.ECONNRESET"}},
            w \in SUBSET {"QRepSyncError", "NormalizationError", "net.OpError"},
            c \in ChCodes, m \in ChMessages}
    \cup {[ErrorValue(i, {"mysql.MyError"} \cup w, NoResponse) EXCEPT !.my = my] :
            i \in {{}, {"mysql.ErrBadConn"}, {"syscall.ECONNRESET"}},
            w \in SUBSET {"ConnectError", "clickhouse.Exception", "net.OpError"},
            my \in MyErrors}
    \cup {[ErrorValue(i, a, NoResponse)
             EXCEPT !.detail = [Err |-> "connection refused", Reason |-> "connect failed",
                                DestinationTable |-> "tbl", DestinationColumn |-> "col"]] :
            i \in SUBSET {"syscall.ECONNRESET", "net.ErrClosed",
                          "PeerCreateError: context.DeadlineExceeded"},
            a \in SUBSET {"net.OpError", "ssh.OpenChannelError", "SSHTunnelSetupError",
                          "net.DNSError", "PeerCreateError", "NumericOutOfRangeError",
                          "NumericTruncatedError"}}

NoClassify == [pc |-> "idle", err |-> ErrorValue({}, {}, NoResponse),
               class |-> NoClass, info |-> ErrorInfo("", "")]

\* GetErrorClass is called with the error
GetErrorClass_Call ==
    /\ cls.pc = "given"
    /\ LET res == GetErrorClass(cls.err)
       IN cls' = [cls EXCEPT !.pc = "classified", !.class = res.class,
                             !.info = res.info]
    /\ UNCHANGED <<otherVars, store, sideVars>>
\* ------------------------------------------------ the job controller
MaxSignals == 2
MaxIterations == 2

\* FlowStatus: the statuses of a running mirror
FlowStatus ==
    [STATUS_RUNNING |-> "STATUS_RUNNING", STATUS_PAUSED |-> "STATUS_PAUSED",
     STATUS_PAUSING |-> "STATUS_PAUSING", STATUS_TERMINATING |-> "STATUS_TERMINATING",
     STATUS_TERMINATED |-> "STATUS_TERMINATED"]

\* the configuration of the mirror that the signals change
FlowConfig(tables, batch_size, flowEnv) ==
    [tables |-> tables, batch_size |-> batch_size, env |-> flowEnv]
EnvKeys == {"k"}
NoConfig == FlowConfig({}, 0, [k \in EnvKeys |-> ""])

\* CDCFlowConfigUpdate: the tables added and removed, the batch size (0:
\* not given), the keys of the env map that are updated
CDCFlowConfigUpdate(additional_tables, removed_tables, batch_size, updated_env) ==
    [additional_tables |-> additional_tables, removed_tables |-> removed_tables,
     batch_size |-> batch_size, updated_env |-> updated_env]

ConfigUpdates ==
    {CDCFlowConfigUpdate({"t2"}, {}, 0, <<>>),      \* add-tables
     CDCFlowConfigUpdate({}, {"t1"}, 0, <<>>),      \* remove-tables
     CDCFlowConfigUpdate({}, {}, 0, [k \in EnvKeys |-> "w"]),   \* update-env
     CDCFlowConfigUpdate({}, {}, 2, <<>>)}          \* update-batch-size

Signals ==
    {[type |-> "update", update |-> u] : u \in ConfigUpdates}
    \cup {[type |-> t, update |-> CDCFlowConfigUpdate({}, {}, 0, <<>>)] :
            t \in {"pause", "resume", "terminate"}}

\* the configuration after an update: keys of env that the update does not
\* name are left unchanged
ApplyUpdate(config, u) ==
    [tables |-> (config.tables \cup u.additional_tables) \ u.removed_tables,
     batch_size |-> IF u.batch_size # 0 THEN u.batch_size ELSE config.batch_size,
     env |-> [k \in EnvKeys |->
                IF k \in DOMAIN u.updated_env THEN u.updated_env[k]
                ELSE config.env[k]]]

\* the signals are applied in the order of their arrival
RECURSIVE ApplySignals(_, _)
ApplySignals(f, sigs) ==
    IF sigs = <<>> THEN f
    ELSE LET sig == Head(sigs)
             g == CASE sig.type = "update" ->
                         [f EXCEPT !.config = ApplyUpdate(f.config, sig.update)]
                    [] sig.type = "pause" -> [f EXCEPT !.status = FlowStatus.STATUS_PAUSED]
                    [] sig.type = "resume" ->
                         [f EXCEPT !.status = IF f.status = FlowStatus.STATUS_TERMINATING
                                              THEN f.status ELSE FlowStatus.STATUS_RUNNING]
                    [] sig.type = "terminate" ->
                         [f EXCEPT !.status = FlowStatus.STATUS_TERMINATING]
         IN IF g.status = FlowStatus.STATUS_TERMINATING THEN g
            ELSE ApplySignals(g, Tail(sigs))

HasPause(sigs) == \E i \in DOMAIN sigs : sigs[i].type = "pause"

\* the waiting signals without the pause that has taken effect
RECURSIVE AfterPause(_)
AfterPause(sigs) ==
    IF sigs = <<>> THEN <<>>
    ELSE IF Head(sigs).type = "pause" THEN Tail(sigs)
    ELSE <<Head(sigs)>> \o AfterPause(Tail(sigs))

NoFlow ==
    [status |-> FlowStatus.STATUS_RUNNING, pc |-> "top", config |-> NoConfig, step |-> NoConfig,
     signals |-> <<>>, synced |-> 0, normalized |-> 0,
     iteration |-> 0, applied |-> NoConfig]

\* (faulty variant) a configuration update reaches the running step
ReceiveIntoStep(f, sig) ==
    [f EXCEPT !.signals = Append(f.signals, sig),
              !.step = IF f.pc \in {"sync", "normalize"} /\ sig.type = "update"
                       THEN ApplyUpdate(f.step, sig.update) ELSE f.step,
              !.status = IF sig.type = "pause" /\ f.status = FlowStatus.STATUS_RUNNING
                         THEN FlowStatus.STATUS_PAUSING ELSE f.status]

\* (faulty variant) a pause stops the mirror at once
ReceivePausesAtOnce(f, sig) ==
    [f EXCEPT !.signals = Append(f.signals, sig),
              !.status = IF sig.type = "pause" /\ f.status = FlowStatus.STATUS_RUNNING
                         THEN FlowStatus.STATUS_PAUSED ELSE f.status,
              !.pc = IF sig.type = "pause" /\ f.status = FlowStatus.STATUS_RUNNING
                     THEN "top" ELSE f.pc]

\* a signal is received: it waits for the controller; a pause shows as
\* PAUSING until it takes effect
Receive(f, sig) ==
    [f EXCEPT !.signals = Append(f.signals, sig),
              !.status = IF sig.type = "pause" /\ f.status = FlowStatus.STATUS_RUNNING
                         THEN FlowStatus.STATUS_PAUSING ELSE f.status]

Flow_Signal ==
    /\ flow.pc # "idle"
    /\ flow.status \notin {FlowStatus.STATUS_TERMINATING, FlowStatus.STATUS_TERMINATED}
    /\ Len(flow.signals) < MaxSignals
    /\ \E sig \in Signals : flow' = Receive(flow, sig)
    /\ UNCHANGED <<otherVars, store, cls, rn, eq, repl, rp, ga, rm>>

\* the start of an iteration: the waiting signals are applied, and a
\* running mirror starts its sync step with the configuration they leave
Flow_Iterate ==
    /\ flow.pc = "top"
    /\ flow.status \in {FlowStatus.STATUS_RUNNING, FlowStatus.STATUS_PAUSING, FlowStatus.STATUS_PAUSED}
    /\ flow.status = FlowStatus.STATUS_PAUSED => flow.signals # <<>>
    /\ flow.iteration < MaxIterations
    /\ LET f == ApplySignals([flow EXCEPT !.status =
                                 IF @ = FlowStatus.STATUS_PAUSING THEN FlowStatus.STATUS_RUNNING ELSE @],
                             flow.signals)
       IN flow' = IF f.status = FlowStatus.STATUS_RUNNING
                  THEN [f EXCEPT !.signals = <<>>, !.pc = "sync", !.step = f.config,
                                 !.applied = f.config, !.iteration = @ + 1]
                  ELSE [f EXCEPT !.signals = <<>>]
    /\ UNCHANGED <<otherVars, store, cls, rn, eq, repl, rp, ga, rm>>

\* the sync step commits its cursor; a pause received meanwhile takes effect
Flow_SyncCommit ==
    /\ flow.pc = "sync"
    /\ flow' = IF HasPause(flow.signals)
               THEN [flow EXCEPT !.synced = @ + 1, !.step = NoConfig, !.pc = "top",
                                 !.status = FlowStatus.STATUS_PAUSED,
                                 !.signals = AfterPause(flow.signals)]
               ELSE [flow EXCEPT !.synced = @ + 1, !.pc = "normalize"]
    /\ UNCHANGED <<otherVars, store, cls, rn, eq, repl, rp, ga, rm>>

\* the normalize step commits its cursor; a pause received meanwhile takes
\* effect
Flow_NormalizeCommit ==
    /\ flow.pc = "normalize"
    /\ flow' = [flow EXCEPT !.normalized = flow.synced, !.step = NoConfig, !.pc = "top",
                            !.status = IF HasPause(flow.signals) THEN FlowStatus.STATUS_PAUSED
                                       ELSE @,
                            !.signals = IF HasPause(flow.signals) THEN AfterPause(@)
                                        ELSE @]
    /\ UNCHANGED <<otherVars, store, cls, rn, eq, repl, rp, ga, rm>>

Flow_Terminate ==
    /\ flow.status = FlowStatus.STATUS_TERMINATING
    /\ flow' = [flow EXCEPT !.status = FlowStatus.STATUS_TERMINATED]
    /\ UNCHANGED <<otherVars, store, cls, rn, eq, repl, rp, ga, rm>>

\* ------------------------------------------------------- RenameTables
\* the tables of the destination by their normalized names; a row has its
\* primary key, its other columns and the soft-delete column
TableNames == {"a", "b", "c"}
NoTable == [exists |-> FALSE, rows |-> {}]
Table(rows) == [exists |-> TRUE, rows |-> rows]
Row(pk, val, deleted) == [pk |-> pk, val |-> val, deleted |-> deleted]
TableContents ==
    {{}, {Row(1, "new", FALSE)}, {Row(1, "old", FALSE), Row(2, "old", FALSE)}}

RenameTableOption(CurrentName, NewName) ==
    [CurrentName |-> CurrentName, NewName |-> NewName]

\* RenameTablesInput: each option names a resync table and the table it
\* replaces, which is another table
RenameOptions ==
    {RenameTableOption(x, y) : x \in TableNames, y \in TableNames} \
        {RenameTableOption(x, x) : x \in TableNames}
RenameRequests ==
    {[RenameTableOptions |-> opts, SoftDeleteColName |-> sd] :
        opts \in {<<>>} \cup {<<o>> : o \in RenameOptions}
                 \cup {<<o, p>> : o \in RenameOptions, p \in RenameOptions},
        sd \in {"", "_PEERDB_IS_DELETED"}}

\* INSERT INTO src SELECT allCols, true FROM dst WHERE pkey NOT IN (SELECT
\* pkey FROM src)
InsertSoftDeleted(src, dst) ==
    src \cup {Row(r.pk, r.val, TRUE) :
                r \in {d \in dst : \A q \in src : q.pk # d.pk}}

\* one pass of the loop of RenameTables: the statements take effect as they
\* are executed (DDL commits), and are seen by checkIfTableExists
RenameOne(db, req, opt) ==
    LET src == opt.CurrentName
        dst == opt.NewName
        resyncTableExists == db.tables[src].exists
        originalTableExists == db.tables[dst].exists
        inserted ==
            IF originalTableExists /\ req.SoftDeleteColName # ""
            THEN [db.tables EXCEPT ![src] =
                     Table(InsertSoftDeleted(db.tables[src].rows, db.tables[dst].rows))]
            ELSE db.tables
        dropped == [inserted EXCEPT ![dst] = NoTable]
    IN IF db.err \/ ~resyncTableExists THEN db
       ELSE IF ~dropped[src].exists
            THEN [tables |-> dropped, err |-> TRUE]     \* ALTER TABLE fails
       ELSE [tables |-> [dropped EXCEPT ![dst] = dropped[src], ![src] = NoTable],
             err |-> FALSE]

RECURSIVE RenameAll(_, _, _)
RenameAll(db, req, opts) ==
    IF opts = <<>> THEN db
    ELSE RenameAll(RenameOne(db, req, Head(opts)), req, Tail(opts))

NoRename ==
    [tables |-> [n \in TableNames |-> NoTable],
     req |-> [RenameTableOptions |-> <<>>, SoftDeleteColName |-> ""],
     calls |-> 0, ok |-> <<>>, initial |-> [n \in TableNames |-> NoTable],
     first |-> [n \in TableNames |-> NoTable]]

\* RenameTables is invoked with the request
RenameTables ==
    /\ rn.calls < 2
    /\ rn.calls > 0 => rn.ok[rn.calls]
    /\ LET res == RenameAll([tables |-> rn.tables, err |-> FALSE], rn.req,
                            rn.req.RenameTableOptions)
       IN rn' = [rn EXCEPT !.tables = res.tables, !.calls = @ + 1,
                           !.ok = Append(@, ~res.err),
                           !.first = IF rn.calls = 0 THEN res.tables ELSE @]
    /\ UNCHANGED <<otherVars, store, cls, flow, eq, repl, rp, ga, rm>>

\* --------------------------------------------- Equals on whole numbers
IntegerElements == {0, 1, NumericArrayTolerance}
IntegerArrays ==
    {<<>>} \cup {<<x>> : x \in IntegerElements}
           \cup {<<x, y>> : x \in IntegerElements, y \in IntegerElements}
IntegerQValues ==
    {QValueInt16(i) : i \in {-1, 7}}
    \cup {QValueInt32(i) : i \in {-1, 7}}
    \cup {QValueInt64(i) : i \in {-1, 7, NumericArrayTolerance}}
    \cup {QValueArrayInt16(a) : a \in {<<>>, <<0>>, <<1>>, <<0, 1>>}}
    \cup {QValueArrayInt32(a) : a \in IntegerArrays}
    \cup {QValueArrayInt64(a) : a \in IntegerArrays}

NoEquals == [qv |-> QValueInt32(0), other |-> QValueInt32(0), called |-> FALSE,
             result |-> FALSE]

\* Equals is called on the two values
Equals_Call ==
    /\ ~eq.called
    /\ eq' = [eq EXCEPT !.called = TRUE, !.result = Equals(eq.qv, eq.other)]
    /\ UNCHANGED <<otherVars, store, cls, flow, rn, repl, rp, ga, rm>>

\* ------------------------------------- the puller and the keepalive ping
\* one replication connection to the source, used by PullRecords and by
\* ReplPing, which a ticker calls while the puller runs
MaxReceived == 2
MaxPings == 2
MaxPulls == 2

NoRepl == [receiving |-> FALSE, pinging |-> FALSE, received |-> 0, pulls |-> 0,
           calls |-> 0, pings |-> 0, skipped |-> 0, skippedAt |-> -1]

\* (faulty variant) the ping takes the connection whether or not a pull is
\* receiving on it
TryPingAlways(c) == [c EXCEPT !.pinging = TRUE]

\* the ping looks whether a pull is receiving: it returns at once if so,
\* and takes the connection if not
TryPing(c) ==
    IF c.receiving
    THEN [c EXCEPT !.skipped = @ + 1, !.skippedAt = c.received]
    ELSE [c EXCEPT !.pinging = TRUE]

\* PullRecords takes the connection and starts to receive
PullRecords_Start ==
    /\ ~repl.receiving /\ ~repl.pinging
    /\ repl.pulls < MaxPulls
    /\ repl' = [repl EXCEPT !.receiving = TRUE, !.received = 0, !.pulls = @ + 1,
                            !.skippedAt = -1]
    /\ UNCHANGED <<otherVars, store, cls, flow, rn, eq, rp, ga, rm>>

\* the pull receives a record; it has the connection to itself
PullRecords_Receive ==
    /\ repl.receiving /\ ~repl.pinging
    /\ repl.received < MaxReceived
    /\ repl' = [repl EXCEPT !.received = @ + 1]
    /\ UNCHANGED <<otherVars, store, cls, flow, rn, eq, rp, ga, rm>>

PullRecords_Return ==
    /\ repl.receiving
    /\ repl' = [repl EXCEPT !.receiving = FALSE]
    /\ UNCHANGED <<otherVars, store, cls, flow, rn, eq, rp, ga, rm>>

\* the ticker calls ReplPing
ReplPing_Call ==
    /\ ~repl.pinging
    /\ repl.calls < MaxPings
    /\ repl' = [TryPing(repl) EXCEPT !.calls = @ + 1]
    /\ UNCHANGED <<otherVars, store, cls, flow, rn, eq, rp, ga, rm>>

\* the ping is sent to the source and the connection is given back
ReplPing_Return ==
    /\ repl.pinging
    /\ repl' = [repl EXCEPT !.pinging = FALSE, !.pings = @ + 1]
    /\ UNCHANGED <<otherVars, store, cls, flow, rn, eq, rp, ga, rm>>

\* ------------------------------------------- ReplayTableSchemaDeltas
\* the names of added columns as the source gives them, and in upper case as
\* the ALTER TABLE statement quotes them
AddedColumnNames == {"c", "C", "d"}
ToUpper(name) == IF name = "d" THEN "D" ELSE "C"

\* a TableSchemaDelta; NilDelta is a nil entry of the list
NilDelta == [nil |-> TRUE, DstTableName |-> "", AddedColumns |-> <<>>]
TableSchemaDelta(t, added) == [nil |-> FALSE, DstTableName |-> t, AddedColumns |-> added]

AddedColumnLists ==
    {<<>>} \cup {<<x>> : x \in AddedColumnNames}
           \cup {<<x, y>> : x \in AddedColumnNames, y \in AddedColumnNames}
SchemaDeltas == {NilDelta} \cup {TableSchemaDelta("t1", a) : a \in AddedColumnLists}
SchemaDeltaLists ==
    {<<>>} \cup {<<d>> : d \in SchemaDeltas}
           \cup {<<d, e>> : d \in SchemaDeltas, e \in SchemaDeltas}

\* the ALTER TABLE statements of a list of deltas, in the order of the two
\* loops: nil deltas and deltas without added columns are passed over
RECURSIVE AlterStatements(_)
AlterStatements(deltas) ==
    IF deltas = <<>> THEN <<>>
    ELSE LET d == Head(deltas)
         IN (IF d.nil \/ Len(d.AddedColumns) = 0 THEN <<>>
             ELSE [i \in DOMAIN d.AddedColumns |->
                      [tbl |-> d.DstTableName, col |-> ToUpper(d.AddedColumns[i])]])
            \o AlterStatements(Tail(deltas))

\* ADD COLUMN IF NOT EXISTS for the first n statements
AddColumns(cols, stmts, n) ==
    [t \in DOMAIN cols |->
        cols[t] \cup {stmts[i].col : i \in {j \in 1..n : stmts[j].tbl = t}}]

NoReplay ==
    [cols |-> [t \in {"t1"} |-> {"ID"}], deltas |-> <<>>, ddlInTx |-> TRUE,
     calls |-> 0, began |-> FALSE, sent |-> 0, err |-> "", before |-> [t \in {"t1"} |-> {"ID"}],
     first |-> [t \in {"t1"} |-> {"ID"}]]

ReplayFailures == {"", "convert", "alter", "commit"}

\* ReplayTableSchemaDeltas is called with the list of deltas. failAt is the
\* added column at which ToDWHColumnType or the ALTER TABLE fails, if one
\* does. Rollback undoes the statements of the transaction if the database
\* runs ALTER TABLE inside it (ddlInTx), and nothing if each ALTER TABLE is
\* committed as it is executed
ReplayTableSchemaDeltas ==
    /\ rp.calls < 2
    /\ rp.calls > 0 => rp.err = ""
    /\ LET stmts == AlterStatements(rp.deltas)
       IN IF Len(rp.deltas) = 0
          THEN rp' = [rp EXCEPT !.calls = @ + 1, !.began = FALSE, !.sent = 0,
                                !.err = "", !.before = rp.cols,
                                !.first = IF rp.calls = 0 THEN rp.cols ELSE @]
          ELSE \E fail \in ReplayFailures, failAt \in 1..2, kept \in BOOLEAN :
                /\ fail \in {"convert", "alter"} => failAt <= Len(stmts)
                /\ fail \notin {"convert", "alter"} => failAt = 1
                /\ fail # "commit" => kept
                /\ LET sent == CASE fail = "convert" -> failAt - 1
                                 [] fail = "alter" -> failAt
                                 [] OTHER -> Len(stmts)
                       done == CASE fail = "convert" -> failAt - 1
                                 [] fail = "alter" -> failAt - 1
                                 [] OTHER -> Len(stmts)
                       after == CASE fail \in {"convert", "alter"} ->
                                        IF rp.ddlInTx THEN rp.cols
                                        ELSE AddColumns(rp.cols, stmts, done)
                                  [] fail = "commit" ->
                                        IF kept \/ ~rp.ddlInTx
                                        THEN AddColumns(rp.cols, stmts, done)
                                        ELSE rp.cols
                                  [] OTHER -> AddColumns(rp.cols, stmts, done)
                   IN rp' = [rp EXCEPT !.calls = @ + 1, !.began = TRUE,
                                       !.sent = sent, !.err = fail,
                                       !.before = rp.cols, !.cols = after,
                                       !.first = IF rp.calls = 0 THEN after ELSE @]
    /\ UNCHANGED <<otherVars, store, cls, flow, rn, eq, repl, ga, rm>>

\* --------------------------------------------------------------- GetAs
\* the peers GetAs is asked for: a Snowflake peer, and a peer whose Config
\* is none of the kinds GetConnector knows
PeerConfigs == {"Peer_SnowflakeConfig", "none"}
\* the capabilities asked for; the Snowflake connector has SyncRecords and
\* NormalizeRecords and no PullRecords
Capabilities == {"Connector", "CDCSyncConnector", "CDCPullConnector"}
Implements(config, T) == config = "Peer_SnowflakeConfig" /\ T # "CDCPullConnector"

MaxCalls == 3

\* open: the connectors that exist and are not closed; handles: the sql.DB
\* handles that are open
NoGetAs == [pc |-> "idle", config |-> "none", T |-> "Connector", calls |-> 0,
            open |-> 0, handles |-> 0, openBefore |-> 0, created |-> FALSE,
            closed |-> FALSE, result |-> ""]

\* (faulty variant) ErrUnsupported is returned and the connector is left as
\* it is
UnsupportedLeftOpen(g) == [g EXCEPT !.pc = "ret", !.result = "ErrUnsupported"]

\* conn.Close(), then ErrUnsupported
Unsupported(g) ==
    [g EXCEPT !.pc = "ret", !.result = "ErrUnsupported", !.closed = TRUE,
              !.open = @ - 1, !.handles = @ - 1]

\* GetAs is called: GetConnector switches on the kind of the peer's Config
GetAs_Begin ==
    /\ ga.pc \in {"idle", "ret"}
    /\ ga.calls < MaxCalls
    /\ \E config \in PeerConfigs, T \in Capabilities :
          LET call == [ga EXCEPT !.config = config, !.T = T, !.calls = @ + 1,
                                 !.openBefore = ga.open, !.created = FALSE,
                                 !.closed = FALSE, !.result = ""]
          IN ga' = IF config = "none"
                   THEN [call EXCEPT !.pc = "ret", !.result = "PeerCreateError"]
                   ELSE [call EXCEPT !.pc = "key"]
    /\ UNCHANGED <<otherVars, store, cls, flow, rn, eq, repl, rp, rm>>

\* NewSnowflakeConnector up to sql.Open: the key is decoded, the DSN is
\* built and the handle is opened, or one of them fails
NewSnowflakeConnector_Open ==
    /\ ga.pc = "key"
    /\ \E ok \in BOOLEAN :
          ga' = IF ok THEN [ga EXCEPT !.pc = "ping", !.handles = @ + 1]
                ELSE [ga EXCEPT !.pc = "ret", !.result = "PeerCreateError"]
    /\ UNCHANGED <<otherVars, store, cls, flow, rn, eq, repl, rp, rm>>

\* PingContext and NewPostgresMetadata; the connector is returned when both
\* succeed, and the error is returned, the handle left as it is, when one
\* fails
NewSnowflakeConnector_Ping ==
    /\ ga.pc = "ping"
    /\ \E ok \in BOOLEAN :
          ga' = IF ok THEN [ga EXCEPT !.pc = "assert", !.created = TRUE, !.open = @ + 1]
                ELSE [ga EXCEPT !.pc = "ret", !.result = "PeerCreateError"]
    /\ UNCHANGED <<otherVars, store, cls, flow, rn, eq, repl, rp, rm>>

\* conn.(T): the connector is returned, or closed
GetAs_Assert ==
    /\ ga.pc = "assert"
    /\ ga' = IF Implements(ga.config, ga.T)
             THEN [ga EXCEPT !.pc = "ret", !.result = "ok"]
             ELSE Unsupported(ga)
    /\ UNCHANGED <<otherVars, store, cls, flow, rn, eq, repl, rp, rm>>

\* the caller closes a connector it was given: SnowflakeConnector.Close
\* closes the handle
Connector_Close ==
    /\ ga.pc \in {"idle", "ret"}
    /\ ga.open > 0
    /\ ga' = [ga EXCEPT !.pc = "idle", !.open = @ - 1, !.handles = @ - 1,
                        !.result = ""]
    /\ UNCHANGED <<otherVars, store, cls, flow, rn, eq, repl, rp, rm>>

\* --------------------------------------- RemoveTableEntriesFromRawTable
\* RemoveTablesFromRawTableInput
RemoveTablesFromRawTableInput(names, SyncBatchId, NormalizeBatchId) ==
    [DestinationTableNames |-> names, SyncBatchId |-> SyncBatchId,
     NormalizeBatchId |-> NormalizeBatchId]

NoRemove == [req |-> RemoveTablesFromRawTableInput({}, 0, 0), failed |-> {},
             calls |-> 0]

\* (faulty variant) the batch the normalize cursor stands on is removed too
InBatchRangeFromCursor(b, req) ==
    b >= req.NormalizeBatchId /\ b <= req.SyncBatchId

\* _PEERDB_BATCH_ID > NormalizeBatchId AND _PEERDB_BATCH_ID <= SyncBatchId
InBatchRange(b, req) ==
    b > req.NormalizeBatchId /\ b <= req.SyncBatchId

\* the raw rows after the DELETE statements of the tables whose statement
\* was executed
DeleteFromRaw(rows, req, executed) ==
    LET kept == {r \in BagToSet(rows) :
                    ~(r.tbl \in executed /\ InBatchRange(r.batch, req))}
    IN [r \in kept |-> rows[r]]

\* every component but x is idle
IdleBut(x) ==
    /\ x = "flow" \/ flow = [NoFlow EXCEPT !.pc = "idle"]
    /\ x = "rn" \/ rn = NoRename
    /\ x = "eq" \/ eq = NoEquals
    /\ x = "repl" \/ repl = NoRepl
    /\ x = "rp" \/ rp = NoReplay
    /\ x = "ga" \/ ga = NoGetAs
    /\ x = "rm" \/ rm = NoRemove

SideIdle == IdleBut("")

\* ------------------------------------------------------- specification
NoSync ==
    [pc |-> "idle", req |-> [batch |-> 0, records |-> <<>>, deltas |-> {}],
     err |-> FALSE,
     leftover |-> FALSE]
NoNormalize ==
    [pc |-> "idle", s |-> 0, mapping |-> Tables, par |-> 1, normBatchID |-> 0,
     batchId |-> 0, pending |-> <<>>, going |-> FALSE, running |-> {}, done |-> {},
     utcs |-> [t \in Tables |-> {}], gerr |-> FALSE, ctxErr |-> FALSE,
     late |-> {}, err |-> FALSE]

Init ==
    /\ last_offset = 0
    /\ last_sync_batch_id = 0
    /\ last_normalize_batch_id = 0
    /\ raw = EmptyBag
    /\ dest = [t \in Tables |-> EmptyBag]
    /\ softDelete = FALSE
    /\ sy = NoSync
    /\ nz = NoNormalize
    /\ batchRecords = [b \in 1..MaxBatch |-> <<>>]
    /\ columns = [t \in Tables |-> Cols]
    /\ batchDeltas = [b \in 1..MaxBatch |-> {}]
    /\ env = AnyRequest
    /\ hist = [normalized |-> dest, cancelled |-> {}, on |-> FALSE]
    /\ store = NoStore /\ cls = NoClassify /\ SideIdle

Next ==
    \/ SyncRecords_Begin
    \/ SyncRecords_Load
    \/ SyncRecords_Replay
    \/ SyncRecords_Finish
    \/ NormalizeRecords_Begin
    \/ MergeTablesForBatch_Begin
    \/ MergeTablesForBatch_Next
    \/ MergeTablesForBatch_Go
    \/ MergeTable
    \/ MergeTablesForBatch_Wait
    \/ NormalizeRecords_Update
    \/ CtxCancel

Spec == Init /\ [][Next]_vars
\* --------------------------------------- specification of one batch's MERGE
\* the shapes of a record of table t1: its key, type, new value and
\* unchanged-TOAST columns
RecordShapes ==
    {Ins(0, 0, "t1", k, v) : k \in Keys, v \in Vals}
    \cup {Upd(0, 0, "t1", k, v) : k \in Keys, v \in Vals}
    \cup {UpdToast(0, 0, "t1", k, v) : k \in Keys, v \in Vals}
    \cup {Del(0, 0, "t1", k) : k \in Keys}

\* the record streams of a batch: 1..MaxRecs records in commit order, the
\* checkpoint growing along the stream, the timestamp never decreasing
MergeBatches ==
    UNION {{[i \in 1..n |-> [shape[i] EXCEPT !.cp = i, !.ts = tss[i]]] :
                shape \in [1..n -> RecordShapes],
                tss \in {q \in [1..n -> 1..MaxTs] :
                            \A i \in 1..n : i < n => q[i] <= q[i + 1]}} :
           n \in 1..MaxRecs}

\* a row merged by an earlier batch
OldRow(k) == [pk |-> k, vals |-> [c \in Cols |-> OldVal], del |-> FALSE]

\* batch 1 is synced and NormalizeRecords(SyncBatchID = 1) has started the
\* merge of its only table; t1 holds rows of earlier normalize steps
\* on: the history of the cursor's advances and of the cancellations is kept
MergeStart(on) ==
    \E recs \in MergeBatches, present \in SUBSET Keys :
        /\ last_offset = GetLastCheckpoint(recs)
        /\ last_sync_batch_id = 1
        /\ last_normalize_batch_id = 0
        /\ raw = SetToBag(RecordsToRawTableStream(1, recs))
        /\ dest = [t \in Tables |->
                     IF t = "t1" THEN SetToBag({OldRow(k) : k \in present})
                     ELSE EmptyBag]
        /\ softDelete \in BOOLEAN
        /\ sy = [NoSync EXCEPT !.pc = "ret", !.req.batch = 1]
        /\ nz = [NoNormalize EXCEPT !.pc = "merge", !.s = 1, !.batchId = 1,
                                    !.running = {"t1"},
                                    !.utcs = GetTableNameToUnchangedCols(raw, 1)]
        /\ batchRecords = [b \in 1..MaxBatch |-> IF b = 1 THEN recs ELSE <<>>]
        /\ columns = [t \in Tables |-> Cols]
        /\ batchDeltas = [b \in 1..MaxBatch |-> {}]
        /\ env = AnyRequest
        /\ hist = [normalized |-> dest, cancelled |-> {}, on |-> on]
        /\ store = NoStore /\ cls = NoClassify /\ SideIdle

InitMerge == MergeStart(FALSE)

InitRestart == MergeStart(TRUE)

NextMerge ==
    \/ MergeTable
    \/ MergeTablesForBatch_Wait
    \/ NormalizeRecords_Update

SpecMerge == InitMerge /\ [][NextMerge]_vars
\* ------------------------------------------------------------- properties
NzWorking == nz.pc \in {"tables", "merge", "update"}
SyWorking == sy.pc \in {"load", "replay", "finish"}

\* the rows of batch b in the raw table, with their multiplicities
BatchRows(b) == [r \in {q \in BagToSet(raw) : q.batch = b} |-> raw[r]]

\* the rows of key pk in a destination table, with their multiplicities
RowsOf(T, pk) == [r \in {q \in BagToSet(T) : q.pk = pk} |-> T[r]]

\* the step is a merge of table t that returned without error
MergedNow(t) == t \in nz'.done /\ t \notin nz.done

\* C1: in every reachable state last_normalize_batch_id <= last_sync_batch_id,
\* and no step of any SyncRecords or NormalizeRecords call, failed or retried,
\* decreases last_offset, last_sync_batch_id or last_normalize_batch_id.
C1_CursorsOrderedAndMonotone ==
    /\ [](last_normalize_batch_id <= last_sync_batch_id)
    /\ [][/\ last_offset' >= last_offset
          /\ last_sync_batch_id' >= last_sync_batch_id
          /\ last_normalize_batch_id' >= last_normalize_batch_id]_vars

\* both cursors have advanced past failed calls of both kinds
C1_Witness ==
    /\ last_normalize_batch_id >= 1
    /\ last_sync_batch_id > last_normalize_batch_id
    /\ nz.pc = "ret" /\ nz.err
    /\ sy.pc = "ret" /\ sy.err

\* C2: a NormalizeRecords call that read cursor n for a request s > n works
\* on one batch at a time, always the batch right after the stored cursor
\* (so n+1, n+2, ..., s in ascending order, batch b+1 never before the
\* cursor equals b); a merge changes a table only by the MERGE of that
\* batch; the cursor moves to b only in the update step that follows the
\* successful merge of every table of batch b; a call that returns without
\* error has brought the cursor to s.
C2_BatchesInOrder ==
    /\ [](NzWorking =>
            /\ nz.batchId = last_normalize_batch_id + 1
            /\ nz.normBatchID < nz.batchId
            /\ nz.batchId <= nz.s)
    /\ [](nz.pc = "ret" /\ ~nz.err /\ nz.normBatchID < nz.s =>
            last_normalize_batch_id = nz.s)
    /\ [][/\ last_normalize_batch_id' # last_normalize_batch_id =>
                /\ nz.pc = "update"
                /\ last_normalize_batch_id' = nz.batchId
                /\ nz.done = GetDistinctTableNamesInBatch(raw, nz.batchId, nz.mapping)
          /\ \A t \in Tables : dest'[t] # dest[t] =>
                /\ nz.pc = "merge" /\ t \in nz.running
                /\ dest'[t] \in MergeResults(dest[t],
                        MergeSource(raw, last_normalize_batch_id + 1, t),
                        nz.utcs[t], softDelete)]_vars

\* a call over two batches or more has returned without error
C2_Witness ==
    nz.pc = "ret" /\ ~nz.err /\ nz.s >= nz.normBatchID + 2

\* C3 as claimed: after a NormalizeRecords call that returned an error the
\* cursor equals its value before the call.
C3_CursorAsBeforeTheCall ==
    nz.pc = "ret" /\ nz.err => last_normalize_batch_id = nz.normBatchID

\* C3 as amended: after a NormalizeRecords call that returned an error the
\* cursor has not reached the batch that failed: it is the batch before the
\* one the call was working on (its value before the call when the call
\* failed before or in its first batch), and the batches of the call merged
\* before stay committed; a call always starts at the batch after the stored
\* cursor and never goes beyond last_sync_batch_id.
C3_CursorStopsBeforeFailedBatch ==
    /\ nz.pc = "ret" /\ nz.err =>
        /\ last_normalize_batch_id >= nz.normBatchID
        /\ last_normalize_batch_id =
              IF nz.batchId = 0 THEN nz.normBatchID ELSE nz.batchId - 1
    /\ nz.pc = "tables" =>
        /\ nz.batchId = last_normalize_batch_id + 1
        /\ nz.s <= last_sync_batch_id

\* a call failed after it had committed a batch
C3_Witness ==
    nz.pc = "ret" /\ nz.err /\ last_normalize_batch_id > nz.normBatchID

\* C4: no step of a SyncRecords call whose SyncBatchID is already committed
\* (<= last_sync_batch_id) changes the raw table, last_offset or
\* last_sync_batch_id.
C4_RerunChangesNothing ==
    [][SyWorking /\ sy.req.batch <= last_sync_batch_id =>
          /\ raw' = raw
          /\ last_offset' = last_offset
          /\ last_sync_batch_id' = last_sync_batch_id]_vars

\* the call for a batch below the sync cursor has returned without error
C4_Witness ==
    sy.pc = "ret" /\ ~sy.err /\ sy.req.batch >= 1
    /\ sy.req.batch < last_sync_batch_id

\* C5: a step of a NormalizeRecords call taken while the stored normalize
\* cursor is >= the call's SyncBatchID is the return of the call: no merge
\* is started, the cursor is not written and no destination table changes.
C5_CaughtUpIsNoOp ==
    [][nz' # nz /\ last_normalize_batch_id >= nz'.s =>
          /\ nz'.pc = "ret"
          /\ dest' = dest
          /\ last_normalize_batch_id' = last_normalize_batch_id]_vars

\* a call for a batch already normalized has returned
C5_Witness ==
    nz.pc = "ret" /\ ~nz.err /\ nz.s >= 1 /\ nz.normBatchID >= nz.s

\* C6: last_sync_batch_id and last_offset change only in the FinishBatch
\* step of SyncRecords, which is reached only after the load and the replay
\* of the schema deltas, with the rows of the batch in the raw table; a call
\* that fails in the load or in the replay leaves both cursors as they were.
C6_FinishBatchAfterWrite ==
    [][/\ (last_sync_batch_id' # last_sync_batch_id \/ last_offset' # last_offset) =>
            /\ sy.pc = "finish"
            /\ BatchRows(sy.req.batch)
                  = SetToBag(RecordsToRawTableStream(sy.req.batch, sy.req.records))
       /\ (sy.pc \in {"load", "replay"} /\ sy'.pc = "ret") =>
            /\ sy'.err
            /\ last_sync_batch_id' = last_sync_batch_id
            /\ last_offset' = last_offset]_vars

\* a call has failed after its rows were written, the cursor not moved
C6_Witness ==
    sy.pc = "ret" /\ sy.err /\ Leftover(sy.req.batch)

\* C7: a batch that is not committed is never the batch a normalize step
\* works on, so the rows a failed SyncRecords left are read by no merge; and
\* once a call (a retry included) has loaded batch b, the raw table holds
\* exactly one copy of each record of the call, and nothing else, for b.
C7_PartialBatchInvisibleAndRetryIdempotent ==
    /\ NzWorking => nz.batchId <= last_sync_batch_id
    /\ sy.pc \in {"replay", "finish"} =>
          BatchRows(sy.req.batch)
            = SetToBag(RecordsToRawTableStream(sy.req.batch, sy.req.records))
    /\ \A b \in 1..MaxBatch :
          BatchRows(b) = SetToBag(RecordsToRawTableStream(b, batchRecords[b]))

\* the retry of a batch whose earlier attempt failed after the load has
\* returned without error
C7_Witness ==
    sy.pc = "ret" /\ ~sy.err /\ sy.leftover
\* the records of the batch being merged, as the source handed them over
BatchOf(t) ==
    {r \in {batchRecords[nz.batchId][i] : i \in DOMAIN batchRecords[nz.batchId]} :
        r.tbl = t}

\* r is the record of the greatest checkpoint for its key in the batch
LastForKey(t, r) == \A q \in BatchOf(t) : q.pk = r.pk => q.cp <= r.cp

\* the rows of key r.pk in table T are what record r alone leaves: none
\* (a soft-deleted one at most) after a delete, else one row with r's values
\* in the columns r carries
ReflectsOnly(T, r) ==
    LET rows == BagToSet(RowsOf(T, r.pk))
    IN IF r.rtype = DeleteRecordType
       THEN \A x \in rows : x.del
       ELSE /\ BagCardinality(RowsOf(T, r.pk)) = 1
            /\ \A x \in rows : \A c \in DOMAIN r.data : x.vals[c] = r.data[c]

\* C8: when a merge of a table returns without error, for records r1 and r2
\* of the batch with the same key and r1.checkpoint_id < r2.checkpoint_id,
\* r2 being the last for the key, the destination rows of the key are what r2
\* alone leaves (absent or soft-deleted if r2 is a delete), never r1's.
C8_LaterCheckpointWins ==
    [][\A t \in Tables : MergedNow(t) =>
          \A r1, r2 \in BatchOf(t) :
              (r1.pk = r2.pk /\ r1.cp < r2.cp /\ LastForKey(t, r2)) =>
                  ReflectsOnly(dest'[t], r2)]_vars

\* a merge has returned without error and the rows of a key are not what the
\* last record of the key leaves
C8_Witness ==
    /\ "t1" \in nz.done
    /\ \E r1, r2 \in BatchOf("t1") :
          /\ r1.pk = r2.pk /\ r1.cp < r2.cp /\ LastForKey("t1", r2)
          /\ ~ReflectsOnly(dest["t1"], r2)

\* the rows of a merge source that have the greatest uid for their key
GreatestUid(S) == {s \in S : \A q \in S : q.pk = s.pk => q.uid <= s.uid}

\* the step merges a table whose batch holds two rows of one key with the
\* same _peerdb_timestamp
TieIn(t) ==
    \E x, y \in VariantConverted(raw, nz.batchId, t) :
        x.pk = y.pk /\ x.uid # y.uid /\ x.ts = y.ts

\* C9: when a merge of a table whose batch holds rows of one key with equal
\* _peerdb_timestamp returns without error, the table is what the MERGE
\* gives with, for every key, only the row of the lexically greatest uid
\* among the rows of the greatest timestamp: exactly one of the tied rows is
\* applied.
C9_TieBrokenByUid ==
    [][\A t \in Tables : (MergedNow(t) /\ TieIn(t)) =>
          dest'[t] \in MergeResults(dest[t],
                          GreatestUid(MergeSource(raw, nz.batchId, t)),
                          nz.utcs[t], softDelete)]_vars

\* a merge has returned without error and left two rows of one key, one for
\* each of the tied raw rows
C9_Witness ==
    /\ "t1" \in nz.done
    /\ \E k \in Keys : BagCardinality(RowsOf(dest["t1"], k)) >= 2

\* C10 as claimed: when a merge of a table returns without error, for any
\* insert or update record of the batch with unchanged_toast_columns U, a
\* row of its key exists, every such row has the record's value in each
\* column outside U, and every row the key had before is kept with its old
\* value in each column of U.  (Stated for batches without equal timestamps
\* on one key.)
C10_AnyRecordKeepsUnchangedColumns ==
    [][\A t \in Tables : (MergedNow(t) /\ ~TieIn(t)) =>
          \A r \in BatchOf(t) : r.rtype # DeleteRecordType =>
              /\ BagToSet(RowsOf(dest'[t], r.pk)) # {}
              /\ \A x \in BagToSet(RowsOf(dest'[t], r.pk)) :
                    \A c \in Cols \ r.utc : x.vals[c] = r.data[c]
              /\ \A tr \in BagToSet(RowsOf(dest[t], r.pk)) :
                    \E x \in BagToSet(RowsOf(dest'[t], r.pk)) :
                        \A c \in r.utc : x.vals[c] = tr.vals[c]]_vars

\* C10 as amended: when a merge of a table returns without error, for the
\* record s the MERGE applies to a key (the only row of rank 1 of the key,
\* not a delete) with unchanged_toast_columns U: a row of the key exists
\* afterwards, every such row has s's value in each column outside U, and
\* every row the key had before is kept with its old value in each column of
\* U.  A record of the batch that a later record of its key supersedes has
\* no such effect.
C10_AppliedRecordKeepsUnchangedColumns ==
    [][\A t \in Tables : MergedNow(t) =>
          \A s \in MergeSource(raw, nz.batchId, t) :
              (s.rtype # DeleteRecordType
                 /\ \A q \in MergeSource(raw, nz.batchId, t) : q.pk = s.pk => q = s) =>
                  /\ BagToSet(RowsOf(dest'[t], s.pk)) # {}
                  /\ \A x \in BagToSet(RowsOf(dest'[t], s.pk)) :
                        \A c \in Cols \ s.utc : x.vals[c] = s.data[c]
                  /\ \A tr \in BagToSet(RowsOf(dest[t], s.pk)) :
                        \E x \in BagToSet(RowsOf(dest'[t], s.pk)) :
                            \A c \in s.utc : x.vals[c] = tr.vals[c]]_vars

\* an update that carries column "a" only has been merged into a row that
\* was there: "c" has the old value, "a" a new one
C10_Witness ==
    /\ "t1" \in nz.done
    /\ \E x \in BagToSet(dest["t1"]) :
          x.vals["c"] = OldVal /\ x.vals["a"] \in Vals
\* ------------------------------------------- insert, update, delete scenario
\* the record streams of one sync step that records an insert, an update and
\* a delete of one key of t1, in commit order, the timestamp never decreasing
ScenarioBatches ==
    {<<[ins EXCEPT !.cp = 1, !.ts = tss[1]],
       [upd EXCEPT !.cp = 2, !.ts = tss[2]],
       [Del(3, tss[3], "t1", ins.pk) EXCEPT !.cp = 3]>> :
        ins \in {Ins(0, 0, "t1", k, v) : k \in Keys, v \in Vals},
        upd \in {r \in RecordShapes : r.rtype = 1},
        tss \in {q \in [1..3 -> 1..(MaxTs + 1)] : q[1] <= q[2] /\ q[2] <= q[3]}}

\* batch 1 holds the three events of a key that t1 does not hold, and
\* NormalizeRecords(SyncBatchID = 1) has started the merge of t1
InitScenario ==
    \E recs \in {q \in ScenarioBatches : q[2].pk = q[1].pk},
       present \in SUBSET Keys :
        /\ recs[1].pk \notin present
        /\ last_offset = GetLastCheckpoint(recs)
        /\ last_sync_batch_id = 1
        /\ last_normalize_batch_id = 0
        /\ raw = SetToBag(RecordsToRawTableStream(1, recs))
        /\ dest = [t \in Tables |->
                     IF t = "t1" THEN SetToBag({OldRow(k) : k \in present})
                     ELSE EmptyBag]
        /\ softDelete \in BOOLEAN
        /\ sy = [NoSync EXCEPT !.pc = "ret", !.req.batch = 1]
        /\ nz = [NoNormalize EXCEPT !.pc = "merge", !.s = 1, !.batchId = 1,
                                    !.running = {"t1"},
                                    !.utcs = GetTableNameToUnchangedCols(raw, 1)]
        /\ batchRecords = [b \in 1..MaxBatch |-> IF b = 1 THEN recs ELSE <<>>]
        /\ columns = [t \in Tables |-> Cols]
        /\ batchDeltas = [b \in 1..MaxBatch |-> {}]
        /\ env = AnyRequest
        /\ hist = [normalized |-> dest, cancelled |-> {}, on |-> FALSE]
        /\ store = NoStore /\ cls = NoClassify /\ SideIdle

SpecScenario == InitScenario /\ [][NextMerge]_vars

\* the three events of the scenario carry three different timestamps
ScenarioInOrder ==
    /\ Len(batchRecords[1]) = 3
    /\ batchRecords[1][1].ts < batchRecords[1][2].ts
    /\ batchRecords[1][2].ts < batchRecords[1][3].ts

\* the rows of the raw table for the key of the scenario
ScenarioRawRows ==
    [r \in {q \in BagToSet(raw) : q.pk = batchRecords[1][1].pk} |-> raw[r]]

InitSchema ==
    /\ last_offset = 0
    /\ last_sync_batch_id = 0
    /\ last_normalize_batch_id = 0
    /\ raw = EmptyBag
    /\ dest = [t \in Tables |-> EmptyBag]
    /\ softDelete = FALSE
    /\ sy = NoSync
    /\ nz = NoNormalize
    /\ batchRecords = [b \in 1..MaxBatch |-> <<>>]
    /\ columns = [t \in Tables |-> IF t = "t1" THEN Cols \ {NewCol} ELSE Cols]
    /\ batchDeltas = [b \in 1..MaxBatch |-> {}]
    /\ env = OneTableMapped
    /\ hist = [normalized |-> dest, cancelled |-> {}, on |-> FALSE]
    /\ store = NoStore /\ cls = NoClassify /\ SideIdle

\* SyncRecords and NormalizeRecords calls without cancellation
NextSchema ==
    \/ SyncRecords_Begin
    \/ SyncRecords_Load
    \/ SyncRecords_Replay
    \/ SyncRecords_Finish
    \/ NormalizeRecords_Begin
    \/ MergeTablesForBatch_Begin
    \/ MergeTablesForBatch_Next
    \/ MergeTablesForBatch_Go
    \/ MergeTable
    \/ MergeTablesForBatch_Wait
    \/ NormalizeRecords_Update

SpecSchema == InitSchema /\ [][NextSchema]_vars
\* C12: every added column of a delta delivered with batch b is a column of
\* its destination table once the sync cursor has reached b, hence whenever
\* a normalize step works on b: every column a raw row of the batch being
\* merged carries exists in its table; a column a table has not got holds
\* NULL in every row; and when a merge returns without error, the rows of
\* the records it applies carry their value of the new column, while a row
\* whose key gets no value for the new column keeps what it had (NULL for
\* rows merged before the delta).
C12_DeltaAppliedBeforeMerge ==
    /\ [](\A b \in 1..MaxBatch : b <= last_sync_batch_id =>
             \A d \in batchDeltas[b] : d.AddedColumns \subseteq columns[d.DstTableName])
    /\ [](NzWorking =>
             \A r \in BagToSet(raw) : r.batch = nz.batchId =>
                 DOMAIN r.data \subseteq columns[r.tbl])
    /\ [](\A t \in Tables : \A x \in BagToSet(dest[t]) :
             \A c \in Cols \ columns[t] : x.vals[c] = NULL)
    /\ [][\A t \in Tables : MergedNow(t) =>
             /\ \A s \in MergeSource(raw, nz.batchId, t) :
                   (s.rtype # DeleteRecordType /\ NewCol \in DOMAIN s.data
                      /\ \A q \in MergeSource(raw, nz.batchId, t) : q.pk = s.pk => q = s) =>
                       /\ BagToSet(RowsOf(dest'[t], s.pk)) # {}
                       /\ \A x \in BagToSet(RowsOf(dest'[t], s.pk)) :
                             x.vals[NewCol] = s.data[NewCol]
             /\ \A x \in BagToSet(dest[t]) :
                   (\A s \in MergeSource(raw, nz.batchId, t) :
                        s.pk = x.pk => (s.rtype # DeleteRecordType
                                          /\ NewCol \notin DOMAIN s.data)) =>
                       \E y \in BagToSet(RowsOf(dest'[t], x.pk)) :
                           y.vals[NewCol] = x.vals[NewCol]]_vars

\* batch 2 came with the delta of t1; batch 1 was merged before, batch 2 after
\* the column was added, and the row of t1 carries batch 2's value of it
C12_Witness ==
    /\ batchDeltas[2] = {Delta("t1")} /\ batchDeltas[1] = {}
    /\ last_normalize_batch_id = 2
    /\ NewCol \in columns["t1"]
    /\ \E x \in BagToSet(dest["t1"]) : x.vals[NewCol] \in Vals

NextRestart ==
    \/ NormalizeRecords_Begin
    \/ MergeTablesForBatch_Begin
    \/ MergeTablesForBatch_Next
    \/ MergeTablesForBatch_Go
    \/ MergeTable
    \/ MergeTablesForBatch_Wait
    \/ NormalizeRecords_Update
    \/ CtxCancel

SpecRestart == InitRestart /\ [][NextRestart]_vars

\* the destination tables an uninterrupted normalize of batch b can leave
\* behind, started from the tables D
UninterruptedRun(D, b, mapping) ==
    {E \in [Tables -> UNION {MergeResults(D[t], MergeSource(raw, b, t),
                                          GetTableNameToUnchangedCols(raw, b)[t],
                                          softDelete) : t \in Tables}
                      \cup {D[t] : t \in Tables}] :
        \A t \in Tables :
            IF t \in GetDistinctTableNamesInBatch(raw, b, mapping)
            THEN E[t] \in MergeResults(D[t], MergeSource(raw, b, t),
                                       GetTableNameToUnchangedCols(raw, b)[t],
                                       softDelete)
            ELSE E[t] = D[t]}

\* C14.  Once the context is cancelled while batch b is normalized, the call
\* returns an error and the normalize cursor stays below b, also when every
\* merge that was started has completed; and when the cursor later moves to b,
\* after any number of cancelled attempts, the destination is one an
\* uninterrupted normalize of b leaves behind.
C14_CancelledBatchIsNormalizedAgain ==
    /\ [](NzWorking /\ nz.ctxErr => last_normalize_batch_id < nz.batchId)
    /\ [][(NzWorking /\ nz.ctxErr) =>
            /\ last_normalize_batch_id' = last_normalize_batch_id
            /\ nz'.pc = "ret" => nz'.err]_vars
    /\ [][(/\ last_normalize_batch_id' # last_normalize_batch_id
           /\ last_normalize_batch_id' \in hist.cancelled) =>
            dest \in UninterruptedRun(hist.normalized, last_normalize_batch_id',
                                      nz.mapping)]_vars

\* an attempt at the batch was cancelled, the batch has been merged again and
\* its cursor is about to move, and the destination is none an uninterrupted
\* normalize leaves behind
C14_Witness ==
    /\ nz.pc = "update" /\ ~nz.ctxErr
    /\ nz.batchId \in hist.cancelled
    /\ dest \notin UninterruptedRun(hist.normalized, nz.batchId, nz.mapping)

\* ------------------------------------------------ the change buffer alone
\* the switch thresholds of the stores
StoreThresholds == 0..(MaxKeys - 1)

\* the connector is idle
ConnectorIdle ==
    /\ last_offset = 0
    /\ last_sync_batch_id = 0
    /\ last_normalize_batch_id = 0
    /\ raw = EmptyBag
    /\ dest = [t \in Tables |-> EmptyBag]
    /\ softDelete = FALSE
    /\ sy = NoSync
    /\ nz = NoNormalize
    /\ batchRecords = [b \in 1..MaxBatch |-> <<>>]
    /\ columns = [t \in Tables |-> Cols]
    /\ batchDeltas = [b \in 1..MaxBatch |-> {}]
    /\ env = AnyRequest
    /\ hist = [normalized |-> dest, cancelled |-> {}, on |-> FALSE]

\* a new change buffer with any of the thresholds, used with the keys and
\* the record of the store's tests
InitStore ==
    /\ ConnectorIdle /\ SideIdle
    /\ cls = NoClassify
    /\ \E T \in StoreThresholds :
          store = NewCDCStore(T, StoreKeys, {GenRec(1), GenRec(2)}, MaxSets)

NextStore ==
    \/ CdcStore_Set
    \/ CdcStore_Get

SpecStore == InitStore /\ [][NextStore]_vars

\* C15: for every key with a non-zero primary-key hash, after any sequence of
\* Set calls, Get(key) returns the record of the most recent Set(key, .),
\* whether the in-memory map or the spill store holds it, and returns "not
\* found" for a key that was never set.
C15_LastWriterWins ==
    /\ \A key \in StoreKeys :
          LET g == Get(store, key)
          IN IF key \in DOMAIN store.lastSet
             THEN g.ok /\ g.rec = store.lastSet[key]
             ELSE ~g.ok /\ g.rec = NoRecord
    /\ store.got.called => store.got = Get(store, store.got.key)

\* Get has returned the second record of a key that the spill store holds,
\* while a key of the in-memory map has been set twice too, and a third key
\* was never set
C15_Witness ==
    /\ store.got.called /\ store.got.ok
    /\ store.got.key \in DOMAIN store.pebbleDB.kv
    /\ store.nset[store.got.key] = 2
    /\ store.got.rec = GenRec(2)
    /\ \E k \in DOMAIN store.inMemoryRecords : store.nset[k] = 2
    /\ \E k \in StoreKeys : k \notin DOMAIN store.lastSet

\* the step is a Set call
SetCalled == store'.calls = store.calls + 1

\* the number of distinct keyed keys that have been set
DistinctKeys(s) == Cardinality(DOMAIN s.lastSet)

\* C16: with switch threshold T, while at most T distinct keys have been set
\* every record is in the in-memory map and there is no spill store; the Set
\* of the (T+1)-th distinct key creates the spill store and puts that record
\* there and not in the map; then Len() is T+1 (plus the un-keyed records, of
\* which the claim has none) and Get of every key set before the transition
\* still returns its latest record.  With T = 0 the first keyed Set spills.
C16_SpillAtThreshold ==
    /\ [](DistinctKeys(store) <= store.numRecordsSwitchThreshold =>
            /\ DOMAIN store.inMemoryRecords = DOMAIN store.lastSet
            /\ \A k \in DOMAIN store.lastSet :
                  store.inMemoryRecords[k] = store.lastSet[k]
            /\ store.pebbleDB = NoDB)
    /\ [][(/\ SetCalled
           /\ DistinctKeys(store) = store.numRecordsSwitchThreshold
           /\ DistinctKeys(store') = store.numRecordsSwitchThreshold + 1) =>
            /\ ~store.pebbleDB.open /\ store'.pebbleDB.open
            /\ DOMAIN store'.pebbleDB.kv = {store'.lastKey}
            /\ store'.lastKey \notin DOMAIN store'.inMemoryRecords
            /\ StoreLen(store') =
                  store.numRecordsSwitchThreshold + 1 + Len(store.unkeyed)
            /\ Get(store', store'.lastKey).rec = store'.lastSet[store'.lastKey]]_vars
    /\ [](store.pebbleDB.open =>
            /\ Cardinality(DOMAIN store.inMemoryRecords)
                  = store.numRecordsSwitchThreshold
            /\ \A k \in DOMAIN store.inMemoryRecords :
                  LET g == Get(store, k)
                  IN g.ok /\ g.rec = store.lastSet[k])

\* with a threshold of two and no un-keyed record the third key has spilled,
\* Len() is three, and Get has returned the latest record of a key that was
\* set before the transition and again after it
C16_Witness ==
    /\ store.numRecordsSwitchThreshold = 2
    /\ store.pebbleDB.open /\ store.unkeyed = <<>> /\ StoreLen(store) = 3
    /\ store.got.called /\ store.got.ok
    /\ store.got.key \in DOMAIN store.inMemoryRecords
    /\ store.nset[store.got.key] = 2
    /\ store.lastKey = store.got.key
    /\ store.got.rec = store.lastSet[store.got.key]

\* C17: a Set with the all-zero key appends the record to the un-keyed list:
\* Len() grows by exactly one, the records that were in the list stay as
\* they are, the keyed tiers are not touched, and Get of every key, the
\* all-zero key included, returns what it returned before.
C17_NullKeyAppends ==
    [][(SetCalled /\ store'.lastKey.PkeyColVal = 0) =>
          /\ StoreLen(store') = StoreLen(store) + 1
          /\ Len(store'.unkeyed) = Len(store.unkeyed) + 1
          /\ SubSeq(store'.unkeyed, 1, Len(store.unkeyed)) = store.unkeyed
          /\ store'.inMemoryRecords = store.inMemoryRecords
          /\ store'.pebbleDB = store.pebbleDB
          /\ \A key \in StoreKeys \cup {NullKey} : Get(store', key) = Get(store, key)
          /\ ~Get(store', NullKey).ok]_vars

\* two records were set with the all-zero key, the same record twice, next
\* to a keyed record; Get of a key that was never set has found nothing
C17_Witness ==
    /\ Len(store.unkeyed) = 2 /\ store.unkeyed[1] = store.unkeyed[2]
    /\ DistinctKeys(store) = 1 /\ StoreLen(store) = 3
    /\ store.got.called /\ ~store.got.ok

\* ------------------------------------------------ the spill's round trip
\* a change buffer with threshold 0, as in TestTimeAndDecimalEncoding: every
\* keyed record is written to the spill store; it is given one record, of
\* the test or of one value of any kind
InitCodec ==
    /\ ConnectorIdle /\ SideIdle
    /\ cls = NoClassify
    /\ store = NewCDCStore(0, {TableWithPkey(h) : h \in 1..2},
                           ValueRecords \cup {GenRec(1)}, 1)

SpecCodec == InitCodec /\ [][NextStore]_vars

\* the kinds whose values come back exactly
ExactKinds == IntKinds \cup {"bool", "string", "bytes", "uuid", "time"}

InitClassify ==
    /\ ConnectorIdle /\ SideIdle
    /\ store = NoStore
    /\ \E err \in ErrorValues :
        cls = [NoClassify EXCEPT !.pc = "given", !.err = err]

SpecClassify == InitClassify /\ [][GetErrorClass_Call]_vars

Classified == cls.pc = "classified"

\* a catalog, drop-flow or setup error around a Postgres error: the branches
\* ahead of the sentinel errors
DecidedByWrapper(err) ==
    /\ HasPgErr(err)
    /\ err.as \cap {"CatalogError", "DropFlowError", "PostgresSetupError"} # {}

\* C19 as stated: every error that is context.Canceled is classified
\* IGNORE_CONTEXT_CANCELLED and every error that is io.EOF or
\* io.ErrUnexpectedEOF is classified IGNORE_EOF, both with action ignore
C19_IgnoredAlways ==
    Classified =>
        /\ errorsIs(cls.err, "context.Canceled") =>
              /\ cls.class = ErrorClasses.ErrorIgnoreContextCancelled
              /\ ErrorAction(cls.class) = Ignore
        /\ errorsIs(cls.err, "io.EOF") \/ errorsIs(cls.err, "io.ErrUnexpectedEOF") =>
              /\ cls.class = ErrorClasses.ErrorIgnoreEOF
              /\ ErrorAction(cls.class) = Ignore

\* C19 as the code has it: unless a catalog, drop-flow or setup error around
\* a Postgres error decides first, an error that is context.Canceled is
\* classified IGNORE_CONTEXT_CANCELLED, and one that is io.EOF or
\* io.ErrUnexpectedEOF and not context.Canceled is classified IGNORE_EOF;
\* both classes have action ignore
C19_IgnoredUnlessDecidedEarlier ==
    Classified /\ ~DecidedByWrapper(cls.err) =>
        /\ errorsIs(cls.err, "context.Canceled") =>
              /\ cls.class = ErrorClasses.ErrorIgnoreContextCancelled
              /\ cls.info = ErrorInfo(ErrorSourceOther, "CONTEXT_CANCELLED")
              /\ ErrorAction(cls.class) = Ignore
        /\ /\ ~errorsIs(cls.err, "context.Canceled")
           /\ errorsIs(cls.err, "io.EOF") \/ errorsIs(cls.err, "io.ErrUnexpectedEOF")
           => /\ cls.class = ErrorClasses.ErrorIgnoreEOF
              /\ cls.info = ErrorInfo(ErrorSourceNet, "EOF")
              /\ ErrorAction(cls.class) = Ignore

\* a cancelled error that also holds a Postgres error and a connect error,
\* and is ignored all the same
C19_Witness ==
    /\ Classified
    /\ errorsIs(cls.err, "context.Canceled")
    /\ HasPgErr(cls.err) /\ errorsAs(cls.err, "ConnectError")
    /\ cls.err.response.Code = pgerrcode.OutOfMemory
    /\ cls.class = ErrorClasses.ErrorIgnoreContextCancelled

\* the pattern of a missing publication as the specification writes it,
\* publication ".*" does not exist: an opening, and some closing after it
\* on the same line
PublicationMissingMessage(msg) ==
    \E i \in DOMAIN msg :
        /\ msg[i] = PublicationOpen
        /\ \E j \in DOMAIN msg :
              /\ j > i /\ msg[j] = DoesNotExistClose
              /\ ~\E k \in DOMAIN msg : i < k /\ k < j /\ msg[k] = "\n"

\* the error is a Postgres error: no wrapper and no sentinel error decides
\* ahead of the switch over its code
PostgresErrorOnly(err) ==
    /\ HasPgErr(err)
    /\ ~DecidedByWrapper(err)
    /\ err.is = {}

\* C20: a Postgres error with SQLSTATE 42704 whose message matches
\* publication ".*" does not exist is classified NOTIFY_PUBLICATION_MISSING
\* with action notify_user and info (postgres, 42704); with any other
\* message it is classified NOTIFY_CONNECTIVITY
C20_UndefinedObject ==
    Classified /\ PostgresErrorOnly(cls.err) /\ cls.err.response.Code = "42704" =>
        IF PublicationMissingMessage(cls.err.response.Message)
        THEN /\ cls.class.Class = "NOTIFY_PUBLICATION_MISSING"
             /\ ErrorAction(cls.class) = "notify_user"
             /\ cls.info = [Source |-> "postgres", Code |-> "42704"]
        ELSE cls.class.Class = "NOTIFY_CONNECTIVITY"

\* a 42704 error about a publication whose message goes on after a line
\* break, classified as a missing publication
C20_Witness ==
    /\ Classified /\ PostgresErrorOnly(cls.err)
    /\ cls.err.response.Code = "42704"
    /\ Len(cls.err.response.Message) = 6
    /\ PublicationMissingMessage(cls.err.response.Message)
    /\ cls.class = ErrorClasses.ErrorNotifyPublicationMissing

\* a 42704 error whose publication name is broken over two lines, classified
\* as a connectivity error
C20_WitnessOtherMessage ==
    /\ Classified /\ PostgresErrorOnly(cls.err)
    /\ cls.err.response.Code = "42704"
    /\ Contains(cls.err.response.Message, PublicationOpen)
    /\ Contains(cls.err.response.Message, DoesNotExistClose)
    /\ ~PublicationMissingMessage(cls.err.response.Message)
    /\ cls.class = ErrorClasses.ErrorNotifyConnectivity

\* the error is a ClickHouse exception: no branch ahead of the switch over
\* its code returns
ClickHouseExceptionOnly(err) ==
    /\ errorsAs(err, "clickhouse.Exception")
    /\ err.is \cap Sentinels = {}
    /\ err.as \cap {"PgError", "PostgresWalError", "ConnectError", "mysql.MyError"} = {}

\* C21: a ClickHouse exception with code UNKNOWN_TABLE (60) or
\* NO_SUCH_COLUMN_IN_TABLE (16) is classified NOTIFY_DESTINATION_MODIFIED,
\* unless its message contains "while pushing to view", when it is
\* classified NOTIFY_MV_OR_VIEW; a MEMORY_LIMIT_EXCEEDED (241) exception is
\* classified NOTIFY_OOM whatever its message
C21_ClickHouseDestination ==
    Classified /\ ClickHouseExceptionOnly(cls.err) =>
        /\ cls.err.ch.Code \in {60, 16} =>
              cls.class.Class =
                 IF \E i \in DOMAIN cls.err.ch.Message :
                        cls.err.ch.Message[i] = "while pushing to view"
                 THEN "NOTIFY_MV_OR_VIEW" ELSE "NOTIFY_DESTINATION_MODIFIED"
        /\ cls.err.ch.Code = 241 => cls.class.Class = "NOTIFY_OOM"

\* an unknown-table exception raised while pushing to a view, which also
\* holds a normalization error
C21_Witness ==
    /\ Classified /\ ClickHouseExceptionOnly(cls.err)
    /\ cls.err.ch.Code = 60
    /\ cls.err.ch.Message = <<"x", "while pushing to view", "x">>
    /\ errorsAs(cls.err, "NormalizationError")
    /\ cls.class = ErrorClasses.ErrorNotifyMVOrView
    /\ cls.info = ErrorInfo("clickhouse", "60")

\* a memory-limit exception raised while pushing to a view
C21_WitnessMemoryLimit ==
    /\ Classified /\ ClickHouseExceptionOnly(cls.err)
    /\ cls.err.ch.Code = 241
    /\ isClickHouseMvError(cls.err.ch)
    /\ cls.class = ErrorClasses.ErrorNotifyOOM

\* no sentinel error and no error type is found in the error
MatchesNoPattern(err) == err.is = {} /\ err.as = {}

\* C22: GetErrorClass is total: every error gets exactly one class, whose
\* action is one non-empty action of the taxonomy notify_user,
\* notify_telemetry, ignore, retry-recoverable; an error matching no pattern
\* is classified OTHER with info (other, UNKNOWN)
C22_Total ==
    Classified =>
        /\ cls.class \in {ErrorClasses[n] : n \in DOMAIN ErrorClasses}
        /\ ErrorAction(cls.class) # ""
        /\ ErrorAction(cls.class) \in
             {"notify_user", "notify_telemetry", "ignore", "retry-recoverable"}
        /\ MatchesNoPattern(cls.err) =>
              /\ cls.class.Class = "OTHER"
              /\ cls.info = [Source |-> "other", Code |-> "UNKNOWN"]

\* an error without any mark has been classified OTHER
C22_Witness ==
    /\ Classified /\ MatchesNoPattern(cls.err)
    /\ cls.class = ErrorClasses.ErrorOther
    /\ ErrorAction(cls.class) = NotifyTelemetry

\* a ClickHouse exception that falls out of the switch, and a Postgres error
\* whose case does not return, end in the default as well
C22_WitnessFallsThrough ==
    /\ Classified
    /\ \/ /\ errorsAs(cls.err, "clickhouse.Exception")
          /\ cls.err.ch.Code = chproto.ErrTooManyParts
       \/ /\ HasPgErr(cls.err)
          /\ cls.err.response.Code = pgerrcode.ObjectNotInPrerequisiteState
    /\ cls.class = ErrorClasses.ErrorOther
    /\ cls.info = ErrorInfo(ErrorSourceOther, "UNKNOWN")

\* ------------------------------------------------ signals to the controller
InitFlow ==
    /\ ConnectorIdle
    /\ store = NoStore /\ cls = NoClassify
    /\ flow = [NoFlow EXCEPT !.config = FlowConfig({"t1"}, 1, [k \in EnvKeys |-> "v"])]
    /\ IdleBut("flow")

NextFlow ==
    \/ Flow_Signal
    \/ Flow_Iterate
    \/ Flow_SyncCommit
    \/ Flow_NormalizeCommit
    \/ Flow_Terminate

SpecFlow == InitFlow /\ [][NextFlow]_vars

StepRunning(f) == f.pc \in {"sync", "normalize"}

\* C23: the control signals add-tables, remove-tables, update-env,
\* update-batch-size, resume and terminate received while a sync or
\* normalize step runs do not change the configuration the step uses; they
\* take effect at the start of the next iteration; a pause takes effect only
\* after the running step has committed its cursor
C23_SignalsBetweenSteps ==
    /\ [](StepRunning(flow) => flow.step = flow.applied)
    /\ [][/\ StepRunning(flow) /\ StepRunning(flow') => flow'.step = flow.step
          /\ StepRunning(flow) =>
                /\ flow'.config = flow.config
                /\ flow'.status \in {flow.status, FlowStatus.STATUS_PAUSING, FlowStatus.STATUS_PAUSED}
          /\ flow'.iteration # flow.iteration =>
                /\ flow.pc = "top" /\ flow'.signals = <<>>
                /\ flow'.step = flow'.config
                /\ flow'.config = ApplySignals(flow, flow.signals).config
          /\ flow'.status = FlowStatus.STATUS_PAUSED /\ flow.status # FlowStatus.STATUS_PAUSED =>
                /\ flow'.pc = "top"
                /\ \/ flow.pc = "top"
                   \/ flow.pc = "sync" /\ flow'.synced = flow.synced + 1
                   \/ flow.pc = "normalize" /\ flow'.normalized = flow.synced
         ]_vars

\* a step runs with the configuration of its iteration while an update that
\* would change it, and a pause, are waiting
C23_Witness ==
    /\ flow.pc = "normalize"
    /\ flow.status = FlowStatus.STATUS_PAUSING
    /\ \E i \in DOMAIN flow.signals :
          /\ flow.signals[i].type = "update"
          /\ ApplyUpdate(flow.config, flow.signals[i].update) # flow.step
    /\ flow.step = flow.applied

\* the second iteration runs with a configuration changed by the signals of
\* the first
C23_WitnessNextIteration ==
    /\ flow.pc = "sync" /\ flow.iteration = 2
    /\ flow.step # FlowConfig({"t1"}, 1, [k \in EnvKeys |-> "v"])

\* ------------------------------------------------ RenameTables, repeated
InitRename ==
    /\ ConnectorIdle
    /\ store = NoStore /\ cls = NoClassify
    /\ IdleBut("rn")
    /\ \E tables \in [TableNames -> {NoTable} \cup {Table(c) : c \in TableContents}],
          req \in RenameRequests :
          rn = [NoRename EXCEPT !.tables = tables, !.initial = tables, !.req = req]

SpecRename == InitRename /\ [][RenameTables]_vars

\* C24: RenameTables is idempotent: a second invocation with the same
\* request after a successful first one succeeds and leaves every
\* destination table (existence, name, rows) as the first left it
C24_RenameTwice ==
    rn.calls = 2 /\ rn.ok[1] => rn.ok[2] /\ rn.tables = rn.first

\* the request renames a to b and c to a; the first invocation has succeeded
\* and the second has moved the table that the first one named a onto b
C24_Witness ==
    /\ rn.calls = 2 /\ rn.ok[1] /\ rn.ok[2]
    /\ rn.req.RenameTableOptions =
           <<RenameTableOption("a", "b"), RenameTableOption("c", "a")>>
    /\ rn.initial["a"].exists /\ rn.initial["c"].exists
    /\ rn.first["a"] = rn.initial["c"] /\ rn.first["b"].exists
    /\ ~rn.tables["a"].exists
    /\ rn.tables["b"].rows # rn.first["b"].rows

\* a resync table has replaced its original, rows soft-deleted, and the
\* second invocation has changed nothing
C24_WitnessNamesApart ==
    /\ rn.calls = 2 /\ rn.ok[1] /\ rn.ok[2]
    /\ rn.req.RenameTableOptions = <<RenameTableOption("a", "b")>>
    /\ rn.initial["a"].exists /\ rn.initial["b"].exists
    /\ rn.first # rn.initial
    /\ \E r \in rn.first["b"].rows : r.deleted
    /\ rn.tables = rn.first

\* no new name of the request is the current name of one of its options
NamesApart(req) ==
    \A i, j \in DOMAIN req.RenameTableOptions :
        req.RenameTableOptions[i].NewName # req.RenameTableOptions[j].CurrentName

\* the second invocation changes nothing when the request's new names are
\* none of its current names
C24_RenameTwiceNamesApart ==
    rn.calls = 2 /\ rn.ok[1] /\ NamesApart(rn.req) =>
        rn.ok[2] /\ rn.tables = rn.first

\* ---------------------------------------------------- Equals, integers
InitEquals ==
    /\ ConnectorIdle
    /\ store = NoStore /\ cls = NoClassify
    /\ IdleBut("eq")
    /\ \E qv \in IntegerQValues, other \in IntegerQValues :
          eq = [NoEquals EXCEPT !.qv = qv, !.other = other]

SpecEquals == InitEquals /\ [][Equals_Call]_vars

SameIntegers(qv, other) ==
    IF qv.kind \in IntKinds THEN qv.val = other.val
    ELSE /\ Len(qv.val) = Len(other.val)
         /\ \A i \in DOMAIN qv.val : qv.val[i] = other.val[i]

\* C25: Equals is exact for integers: for two integer values, and for two
\* integer arrays of the same kind, Equals returns true only if they have
\* the same length and every pair of corresponding elements is the same
\* number
C25_ExactForIntegers ==
    /\ eq.called /\ eq.result
    /\ \/ eq.qv.kind \in IntKinds /\ eq.other.kind \in IntKinds
       \/ eq.qv.kind \in NativeNumericArrayKinds /\ eq.other.kind = eq.qv.kind
    => SameIntegers(eq.qv, eq.other)

\* Equals has returned true for the int32 arrays [0] and [1]
C25_Witness ==
    /\ eq.called /\ eq.result
    /\ eq.qv = QValueArrayInt32(<<0>>) /\ eq.other = QValueArrayInt32(<<1>>)

\* for two integer values that are no arrays, Equals returns true only if
\* they are the same number
C25_ExactForScalars ==
    eq.called /\ eq.result /\ eq.qv.kind \in IntKinds /\ eq.other.kind \in IntKinds
    => eq.qv.val = eq.other.val

\* two integer arrays of one kind that Equals takes for equal have the same
\* length, and corresponding elements differ by less than the tolerance
C25_ArraysWithinTolerance ==
    eq.called /\ eq.result /\ eq.qv.kind \in NativeNumericArrayKinds
              /\ eq.other.kind = eq.qv.kind
    => /\ Len(eq.qv.val) = Len(eq.other.val)
       /\ \A i \in DOMAIN eq.qv.val :
             Abs(eq.qv.val[i] - eq.other.val[i]) < NumericArrayTolerance

\* Equals has returned false for two arrays of one length whose elements
\* differ by the tolerance
C25_WitnessApart ==
    /\ eq.called /\ ~eq.result
    /\ eq.qv = QValueArrayInt64(<<0>>)
    /\ eq.other = QValueArrayInt64(<<NumericArrayTolerance>>)

\* ------------------------------------------ keepalive during a pull
InitRepl ==
    /\ ConnectorIdle
    /\ store = NoStore /\ cls = NoClassify
    /\ IdleBut("repl")
    /\ repl = NoRepl

NextRepl ==
    \/ PullRecords_Start
    \/ PullRecords_Receive
    \/ PullRecords_Return
    \/ ReplPing_Call
    \/ ReplPing_Return

SpecRepl == InitRepl /\ [][NextRepl]_vars

PingCalled == repl'.calls = repl.calls + 1

\* C26: the keepalive ping may be called while a pull runs on the same
\* connection: when the pull is receiving, the ping does nothing (nothing is
\* sent, the pull goes on receiving and is never kept from its next record);
\* when no pull is receiving, the ping is sent to the source
C26_PingBesidePull ==
    /\ [](~(repl.receiving /\ repl.pinging))
    /\ [](repl.receiving /\ repl.received < MaxReceived => ENABLED PullRecords_Receive)
    /\ [][PingCalled /\ repl.receiving =>
             /\ repl'.receiving /\ repl'.received = repl.received
             /\ repl'.pings = repl.pings /\ ~repl'.pinging
             /\ repl'.skipped = repl.skipped + 1]_vars
    /\ [][PingCalled /\ ~repl.receiving =>
             repl'.pinging /\ repl'.skipped = repl.skipped]_vars
    /\ [][repl.pinging /\ ~repl'.pinging => repl'.pings = repl.pings + 1]_vars

\* a ping was called while the pull was receiving, was skipped, and the pull
\* has received a further record since
C26_Witness ==
    /\ repl.receiving /\ repl.skippedAt >= 0
    /\ repl.received > repl.skippedAt
    /\ repl.pings = 0

\* a ping called while no pull was receiving has been sent
C26_WitnessPinged ==
    repl.pings > 0 /\ repl.skipped = 0 /\ ~repl.pinging

\* ------------------------------------ raw rows of a table not in the mapping
\* the tables mergeTablesForBatch has lined up, is merging or has merged
MergeTablesOf(call) ==
    {call.pending[i] : i \in DOMAIN call.pending} \cup call.running \cup call.done

\* C27: when a batch holds raw rows of a destination table that is absent
\* from the request's table mapping, normalize runs no merge for that table
\* and still moves the normalize cursor past the batch; no later normalize
\* merges the batch's rows, as a batch is merged only while it is beyond the
\* cursor, and the cursor never goes back
C27_UnmappedTableSkipped ==
    /\ [](nz.pc = "merge" => MergeTablesOf(nz) \subseteq nz.mapping)
    /\ [][\A t \in Tables : dest'[t] # dest[t] =>
             /\ t \in nz.mapping
             /\ nz.pc = "merge" /\ nz.batchId > last_normalize_batch_id]_vars
    /\ [][nz.pc = "update" /\ nz'.pc \in {"tables", "ret"} /\ ~nz'.err =>
             last_normalize_batch_id' = nz.batchId]_vars
    /\ [][last_normalize_batch_id' >= last_normalize_batch_id]_vars

\* batch 1 holds an insert for t2, the request mapped t1 alone, the cursor has
\* passed batch 1 and t2 has no row
C27_Witness ==
    /\ nz.pc = "tables" /\ nz.mapping = {"t1"} /\ nz.batchId = 2
    /\ last_normalize_batch_id = 1
    /\ \E r \in BagToSet(raw) :
          r.batch = 1 /\ r.tbl = "t2" /\ r.rtype # DeleteRecordType
    /\ dest["t2"] = EmptyBag

\* a later normalize that maps both tables merges batch 2, and the insert of
\* batch 1 for t2 stays unmerged
C27_WitnessLater ==
    /\ nz.pc = "merge" /\ nz.mapping = Tables /\ nz.batchId = 2
    /\ nz.normBatchID = 1 /\ "t2" \in nz.done
    /\ \E r \in BagToSet(raw) :
          r.batch = 1 /\ r.tbl = "t2" /\ r.rtype # DeleteRecordType
    /\ \A r \in BagToSet(raw) : r.batch = 2 /\ r.tbl = "t2" => r.rtype = DeleteRecordType
    /\ dest["t2"] = EmptyBag

\* ---------------------------------------- schema deltas, replayed again
InitReplay ==
    /\ ConnectorIdle
    /\ store = NoStore /\ cls = NoClassify
    /\ IdleBut("rp")
    /\ \E deltas \in SchemaDeltaLists, ddlInTx \in BOOLEAN,
          cols \in {{"ID"}, {"ID", "C"}} :
          rp = [NoReplay EXCEPT !.deltas = deltas, !.ddlInTx = ddlInTx,
                                !.cols = [t \in {"t1"} |-> cols]]

SpecReplay == InitReplay /\ [][ReplayTableSchemaDeltas]_vars

\* no delta of the list adds a column
NothingAdded(deltas) ==
    \A i \in DOMAIN deltas : deltas[i].nil \/ Len(deltas[i].AddedColumns) = 0

\* C28: ReplayTableSchemaDeltas is all-or-nothing over the list of deltas:
\* if adding a column fails (conversion of the type or ALTER TABLE) the
\* function returns an error and none of the call's columns is added; an
\* empty list, nil deltas and deltas without added columns cause no
\* statement; replaying the same deltas twice gives the schema that
\* replaying them once gives
C28_AllOrNothing ==
    /\ rp.calls > 0 /\ rp.err \in {"convert", "alter"} => rp.cols = rp.before
    /\ rp.calls > 0 /\ NothingAdded(rp.deltas) => rp.sent = 0 /\ rp.cols = rp.before
    /\ rp.calls = 2 /\ rp.err = "" => rp.cols = rp.first

\* the second ALTER TABLE of the call has failed, the database commits each
\* ALTER TABLE as it is executed, and the first column of the call is there
C28_Witness ==
    /\ rp.calls = 1 /\ rp.err = "alter" /\ rp.sent = 2 /\ ~rp.ddlInTx
    /\ rp.deltas = <<TableSchemaDelta("t1", <<"c", "d">>)>>
    /\ rp.before["t1"] = {"ID"}
    /\ rp.cols["t1"] = {"ID", "C"}

\* no statement without an added column, the same schema from a second
\* replay, and nothing added by a failed call if the database undoes ALTER
\* TABLE at Rollback
C28_WhenRollbackUndoes ==
    /\ rp.calls > 0 /\ rp.err \in {"convert", "alter"} /\ rp.ddlInTx =>
           rp.cols = rp.before
    /\ rp.calls > 0 /\ NothingAdded(rp.deltas) => rp.sent = 0 /\ rp.cols = rp.before
    /\ rp.calls = 2 /\ rp.err = "" => rp.cols = rp.first

\* two deltas have been replayed twice without error and the second replay
\* has added nothing
C28_WitnessTwice ==
    /\ rp.calls = 2 /\ rp.err = "" /\ rp.sent = 2
    /\ rp.deltas = <<TableSchemaDelta("t1", <<"c">>), TableSchemaDelta("t1", <<"d">>)>>
    /\ rp.first["t1"] = {"ID", "C", "D"} /\ rp.cols = rp.first

\* ------------------------------------------- connectors by capability
InitGetAs ==
    /\ ConnectorIdle
    /\ store = NoStore /\ cls = NoClassify
    /\ IdleBut("ga")
    /\ ga = NoGetAs

NextGetAs ==
    \/ GetAs_Begin
    \/ NewSnowflakeConnector_Open
    \/ NewSnowflakeConnector_Ping
    \/ GetAs_Assert
    \/ Connector_Close

SpecGetAs == InitGetAs /\ [][NextGetAs]_vars

\* C29: GetAs leaves no open connector behind when it fails: a connector
\* that lacks the capability asked for is closed before ErrUnsupported is
\* returned, a failed creation returns PeerCreateError with no connector
\* open, and a connector is returned open only on success
C29_NoConnectorLeftOpen ==
    ga.pc = "ret" =>
        /\ ga.result \in {"ok", "PeerCreateError", "ErrUnsupported"}
        /\ ga.result = "ok" <=> ga.open = ga.openBefore + 1
        /\ ga.result # "ok" => ga.open = ga.openBefore
        /\ ga.result = "ErrUnsupported" <=> ga.created /\ ~Implements(ga.config, ga.T)
        /\ ga.result = "ErrUnsupported" => ga.closed
        /\ ga.result = "PeerCreateError" <=> ~ga.created
        /\ ga.result = "ok" => ga.created /\ ~ga.closed /\ Implements(ga.config, ga.T)

\* a Snowflake connector was created for a caller that asked for a pull
\* connector, was closed, and ErrUnsupported was returned
C29_Witness ==
    /\ ga.pc = "ret" /\ ga.result = "ErrUnsupported"
    /\ ga.config = "Peer_SnowflakeConfig" /\ ga.T = "CDCPullConnector"
    /\ ga.created /\ ga.closed /\ ga.open = ga.openBefore

\* the creation has failed after an earlier call returned a connector
C29_WitnessCreateFailed ==
    /\ ga.pc = "ret" /\ ga.result = "PeerCreateError" /\ ga.calls > 1
    /\ ga.config = "Peer_SnowflakeConfig"
    /\ ga.openBefore = 1 /\ ga.open = 1

\* a failed creation has left the handle of sql.Open unclosed
HandleLeftOpen ==
    /\ ga.pc = "ret" /\ ga.result = "PeerCreateError"
    /\ ga.handles > ga.open

\* ------------------------------------- tables removed from the raw table
\* every batch is synced and none is normalized
InitRemove ==
    /\ \E recs \in [1..MaxBatch -> UNION {SyncRequests(b) : b \in 1..MaxBatch}] :
          /\ \A b \in 1..MaxBatch : recs[b] \in SyncRequests(b)
          /\ batchRecords = recs
          /\ raw = SetToBag(UNION {RecordsToRawTableStream(b, recs[b]) : b \in 1..MaxBatch})
          /\ last_offset = GetLastCheckpoint(recs[MaxBatch])
    /\ last_sync_batch_id = MaxBatch
    /\ last_normalize_batch_id = 0
    /\ dest = [t \in Tables |-> EmptyBag]
    /\ softDelete = FALSE
    /\ sy = NoSync
    /\ nz = NoNormalize
    /\ columns = [t \in Tables |-> Cols]
    /\ batchDeltas = [b \in 1..MaxBatch |-> {}]
    /\ env = AnyRequest
    /\ hist = [normalized |-> dest, cancelled |-> {}, on |-> FALSE]
    /\ store = NoStore /\ cls = NoClassify
    /\ IdleBut("rm")
    /\ rm = NoRemove

\* RemoveTableEntriesFromRawTable: one DELETE per table name; a statement
\* that fails is logged and the loop goes on, and nil is returned
RemoveTableEntriesFromRawTable ==
    /\ SyIdle /\ NzIdle
    /\ rm.calls = 0
    /\ \E names \in SUBSET (Tables \cup {"t3"}), s \in 0..MaxBatch, n \in 0..MaxBatch :
        \E failed \in SUBSET names :
          LET req == RemoveTablesFromRawTableInput(names, s, n)
          IN /\ raw' = DeleteFromRaw(raw, req, names \ failed)
             /\ rm' = [req |-> req, failed |-> failed, calls |-> rm.calls + 1]
    /\ UNCHANGED <<cursors, dest, softDelete, sy, nz, batchRecords, schemaVars, env,
                   hist, store, cls, flow, rn, eq, repl, rp, ga>>

SpecRemove == InitRemove /\ [][RemoveTableEntriesFromRawTable]_vars

\* the raw rows a request names: of one of its tables, in a batch after
\* NormalizeBatchId and up to SyncBatchId
NamedRows(rows, req) ==
    {r \in BagToSet(rows) :
        /\ r.tbl \in req.DestinationTableNames
        /\ req.NormalizeBatchId < r.batch /\ r.batch <= req.SyncBatchId}

C30_WitnessFailed ==
    /\ rm.calls = 1 /\ rm.failed = {"t1"}
    /\ rm.req = RemoveTablesFromRawTableInput({"t1", "t2"}, 2, 0)
    /\ {<<r.tbl, r.batch>> : r \in BagToSet(raw)} = {<<"t1", 1>>, <<"t1", 2>>}

====
